---- MODULE Spec2Model ----
(***************************************************************************)
(* Model of the continuous-insights analysis of LifeTrackerFrontend:       *)
(* coverage segmentation, observation windows, event-stream assembly, the  *)
(* runAnalysis pipeline of the insights worker and the useInsightsWorker   *)
(* host hook.                                                              *)
(*                                                                         *)
(* Time is counted in hours (the source counts milliseconds; every         *)
(* constant of the modelled code is a whole number of hours).  A track     *)
(* list is kept run-length encoded: a record [trackName, date, n] stands   *)
(* for n consecutive tracks of the list that carry the same name and the   *)
(* same timestamp.  Type names are numbers, ordered as the names are by    *)
(* Array.prototype.sort.                                                   *)
(***************************************************************************)
EXTENDS Integers, Sequences, FiniteSets, TLC

\* new Date(s).getTime() of a timestamp that does not parse
NaN == -1

HoursPerDay == 24

isNaN(x) == x = NaN

(***************************************************************************)
(* Small helpers over sequences                                            *)
(***************************************************************************)
RECURSIVE SumSeq(_)
SumSeq(s) == IF s = << >> THEN 0 ELSE Head(s) + SumSeq(Tail(s))

RECURSIVE MinSeq(_)
MinSeq(s) == IF Len(s) = 1 THEN s[1]
             ELSE LET m == MinSeq(Tail(s)) IN IF s[1] < m THEN s[1] ELSE m

RECURSIVE MaxSeq(_)
MaxSeq(s) == IF Len(s) = 1 THEN s[1]
             ELSE LET m == MaxSeq(Tail(s)) IN IF s[1] > m THEN s[1] ELSE m

Max2(a, b) == IF a > b THEN a ELSE b
Min2(a, b) == IF a < b THEN a ELSE b

\* d.toISOString().slice(0, 10): the UTC calendar day of a timestamp
getDayKeyUTC(t) == t \div HoursPerDay

\* new Date(dayKey + 'T00:00:00Z').getTime()
dayStart(key) == key * HoursPerDay

(***************************************************************************)
(* coverageAnalysis.ts                                                     *)
(***************************************************************************)
windowSize == 30
minGapDays == 14

\* thresholdMultiplier = 0.1, kept as the fraction 1 / thresholdDivisor
thresholdDivisor == 10

emptyCoverage ==
  [totalDays |-> 0, activeDays |-> 0, gapDays |-> 0, periods |-> << >>]

validTracks(tracks) == SelectSeq(tracks, LAMBDA t : ~isNaN(t.date))

\* number of tracks of the list that fall on the day with the given key
RECURSIVE dailyCount(_, _)
dailyCount(tracks, key) ==
  IF tracks = << >> THEN 0
  ELSE (IF getDayKeyUTC(Head(tracks).date) = key THEN Head(tracks).n ELSE 0)
       + dailyCount(Tail(tracks), key)

\* dailyCountsArray: one entry per day from the first to the last event day
dailyCountsArray(valid, startDay, endDay) ==
  [i \in 1..(endDay - startDay + 1) |->
     [date |-> dayStart(startDay + i - 1),
      count |-> dailyCount(valid, startDay + i - 1)]]

\* windowCounts.sort((a, b) => a - b)[Math.floor(windowCounts.length / 2)]:
\* the value at 0-based position m of the ascending order is the one with
\* at most m smaller entries and more than m entries not above it
sortedAt(counts, m) ==
  LET vals == {counts[i] : i \in 1..Len(counts)}
      below(v) == Cardinality({i \in 1..Len(counts) : counts[i] < v})
      upTo(v)  == Cardinality({i \in 1..Len(counts) : counts[i] <= v})
  IN CHOOSE v \in vals : below(v) <= m /\ upTo(v) > m

rollingBaselines(arr) ==
  [j \in 1..Len(arr) |->
     LET i == j - 1
         windowStart == Max2(0, i - windowSize)
         windowEnd == Min2(Len(arr) - 1, i + windowSize)
         windowCounts == [x \in 1..(windowEnd - windowStart + 1) |->
                            arr[windowStart + x].count]
     IN sortedAt(windowCounts, Len(windowCounts) \div 2)]

\* day.count >= Math.max(2, baseline * thresholdMultiplier)
dayIsActive(count, baseline) ==
  /\ count >= 2
  /\ count * thresholdDivisor >= baseline

isActiveArray(arr) ==
  LET base == rollingBaselines(arr)
  IN [j \in 1..Len(arr) |-> dayIsActive(arr[j].count, base[j])]

\* line 92 with > in place of >=
isGapRunStrict(periodIsActive, dayCount) ==
  ~periodIsActive /\ dayCount > minGapDays

\* const isGap = !periodIsActive && dayCount >= minGapDays
isGapRun(periodIsActive, dayCount) ==
  ~periodIsActive /\ dayCount >= minGapDays

\* the scan of lines 81-107; i, periodStart are the 0-based indices of the code
RECURSIVE buildPeriods(_, _, _, _, _, _)
buildPeriods(arr, isActive, i, periodStart, periodIsActive, periods) ==
  IF i > Len(isActive) THEN periods
  ELSE
    LET isLast == i = Len(isActive)
        changed == ~isLast /\ isActive[i + 1] # periodIsActive
        periodEnd == i - 1
        dayCount == periodEnd - periodStart + 1
        isGap == isGapRun(periodIsActive, dayCount)
        p == [startDate |-> arr[periodStart + 1].date,
              endDate |-> arr[periodEnd + 1].date,
              dayCount |-> dayCount,
              eventCount |-> SumSeq([x \in 1..dayCount |->
                                       arr[periodStart + x].count]),
              isGap |-> isGap]
    IN IF changed \/ isLast
       THEN buildPeriods(arr, isActive, i + 1,
                         IF changed THEN i ELSE periodStart,
                         IF changed THEN isActive[i + 1] ELSE periodIsActive,
                         Append(periods, p))
       ELSE buildPeriods(arr, isActive, i + 1, periodStart, periodIsActive,
                         periods)

\* the merge without current.dayCount += next.dayCount
extendNoDays(current, next) ==
  [current EXCEPT !.endDate = next.endDate,
                  !.eventCount = current.eventCount + next.eventCount]

\* lines 134-136, the same three assignments as lines 138-140
extend(current, next) ==
  [current EXCEPT !.endDate = next.endDate,
                  !.dayCount = current.dayCount + next.dayCount,
                  !.eventCount = current.eventCount + next.eventCount]

\* the loop of mergePeriods; i is the 0-based index of the code
RECURSIVE mergeLoop(_, _, _, _, _)
mergeLoop(periods, minGap, i, current, merged) ==
  IF i >= Len(periods) THEN Append(merged, current)
  ELSE
    LET next == periods[i + 1]
    IN IF current.isGap = next.isGap
       THEN mergeLoop(periods, minGap, i + 1, extend(current, next), merged)
       ELSE IF next.isGap /\ next.dayCount < minGap
       THEN mergeLoop(periods, minGap, i + 1, extend(current, next), merged)
       ELSE mergeLoop(periods, minGap, i + 1, next, Append(merged, current))

\* the periods returned as scanned, without the merge
mergePeriodsSkipped(periods, minGap) == periods

mergePeriods(periods, minGap) ==
  IF Len(periods) <= 1 THEN periods
  ELSE mergeLoop(periods, minGap, 1, periods[1], << >>)

sumDayCount(periods, gap) ==
  SumSeq([i \in 1..Len(periods) |->
            IF periods[i].isGap = gap THEN periods[i].dayCount ELSE 0])

computeCoverageStats(tracks) ==
  IF Len(tracks) = 0 THEN emptyCoverage
  ELSE
    LET valid == validTracks(tracks)
    IN IF Len(valid) = 0 THEN emptyCoverage
       ELSE
         LET dates == [i \in 1..Len(valid) |-> valid[i].date]
             minTs == MinSeq(dates)
             maxTs == MaxSeq(dates)
             startDay == getDayKeyUTC(minTs)
             endDay == getDayKeyUTC(maxTs)
             totalDays ==
               (dayStart(endDay) - dayStart(startDay)) \div HoursPerDay + 1
             arr == dailyCountsArray(valid, startDay, endDay)
             isActive == isActiveArray(arr)
             periods == buildPeriods(arr, isActive, 1, 0, isActive[1], << >>)
             mergedPeriods == mergePeriods(periods, minGapDays)
         IN [totalDays |-> totalDays,
             activeDays |-> sumDayCount(mergedPeriods, FALSE),
             gapDays |-> sumDayCount(mergedPeriods, TRUE),
             periods |-> mergedPeriods]

(***************************************************************************)
(* observationWindows.ts                                                   *)
(***************************************************************************)
\* default of the minGapMs parameter of coverageToWindows: 6 hours
\* a merge distance of a whole minimal gap
minGapHoursOfGap == minGapDays * HoursPerDay

minGapHours == 6

\* Array.prototype.sort with the comparator (a, b) => a.key - b.key: stable,
\* ascending by key.  insertByKey puts x behind every entry whose key is not
\* above x.key
RECURSIVE insertByKey(_, _)
insertByKey(sorted, x) ==
  IF sorted = << >> THEN << x >>
  ELSE IF Head(sorted).key <= x.key
       THEN << Head(sorted) >> \o insertByKey(Tail(sorted), x)
       ELSE << x >> \o sorted

RECURSIVE stableSortByKey(_)
stableSortByKey(s) ==
  IF s = << >> THEN << >>
  ELSE insertByKey(stableSortByKey(SubSeq(s, 1, Len(s) - 1)), s[Len(s)])

sortByStartMs(raw) ==
  LET keyed == [i \in 1..Len(raw) |-> [key |-> raw[i].startMs, val |-> raw[i]]]
      sorted == stableSortByKey(keyed)
  IN [i \in 1..Len(sorted) |-> sorted[i].val]

\* the merge loop of coverageToWindows; i is the 0-based index of the code
RECURSIVE mergeWindows(_, _, _, _, _)
mergeWindows(raw, minGapMs, i, current, merged) ==
  IF i >= Len(raw) THEN Append(merged, current)
  ELSE IF raw[i + 1].startMs <= current.endMs + minGapMs
       THEN mergeWindows(raw, minGapMs, i + 1,
                         [current EXCEPT !.endMs = Max2(current.endMs, raw[i + 1].endMs)],
                         merged)
       ELSE mergeWindows(raw, minGapMs, i + 1, raw[i + 1], Append(merged, current))

\* the window of a period that ends at the start of its last day
rawWindowOpenDay(p) == [startMs |-> p.startDate, endMs |-> p.endDate]

\* lines 183-186: the window of a period runs to the end of its last day
rawWindow(p) == [startMs |-> p.startDate, endMs |-> p.endDate + HoursPerDay]

\* the windows of all periods, without the filter of line 180
coverageToWindowsAllPeriods(coverage, minGapMs) ==
  LET raw == [i \in 1..Len(coverage.periods) |-> rawWindow(coverage.periods[i])]
      sorted == sortByStartMs(raw)
  IN IF Len(raw) = 0 THEN << >>
     ELSE mergeWindows(sorted, minGapMs, 1, sorted[1], << >>)

coverageToWindows(coverage, minGapMs) ==
  LET activePeriods == SelectSeq(coverage.periods, LAMBDA p : ~p.isGap)
  IN IF Len(activePeriods) = 0 THEN << >>
     ELSE
       LET raw == [i \in 1..Len(activePeriods) |-> rawWindow(activePeriods[i])]
           sorted == sortByStartMs(raw)
       IN mergeWindows(sorted, minGapMs, 1, sorted[1], << >>)

totalObservedMs(windows) ==
  SumSeq([i \in 1..Len(windows) |-> windows[i].endMs - windows[i].startMs])

\* the window test with t <= w.endMs in place of t < w.endMs
RECURSIVE isInObservationWindowClosed(_, _)
isInObservationWindowClosed(t, windows) ==
  IF windows = << >> THEN FALSE
  ELSE LET w == Head(windows)
       IN IF t >= w.startMs /\ t <= w.endMs THEN TRUE
          ELSE IF w.startMs > t THEN FALSE
          ELSE isInObservationWindowClosed(t, Tail(windows))

\* the scan stops at the first window that starts after t
RECURSIVE isInObservationWindow(_, _)
isInObservationWindow(t, windows) ==
  IF windows = << >> THEN FALSE
  ELSE LET w == Head(windows)
       IN IF t >= w.startMs /\ t < w.endMs THEN TRUE
          ELSE IF w.startMs > t THEN FALSE
          ELSE isInObservationWindow(t, Tail(windows))

\* Array.from(typeSet).sort(): the names in ascending order
RECURSIVE sortedNames(_)
sortedNames(S) ==
  IF S = {} THEN << >>
  ELSE LET m == CHOOSE x \in S : \A y \in S : x <= y
       IN << m >> \o sortedNames(S \ {m})

\* events kept by the loop of lines 225-232, in input order
\* every track with a valid timestamp, in a window or not
keptEventsValid(tracks, windows) ==
  SelectSeq(tracks, LAMBDA tr : ~isNaN(tr.date))

keptEvents(tracks, windows) ==
  SelectSeq(tracks, LAMBDA tr : /\ ~isNaN(tr.date)
                                /\ isInObservationWindow(tr.date, windows))

buildEventStream(tracks, windows) ==
  LET kept == keptEvents(tracks, windows)
      keyed == [i \in 1..Len(kept) |-> [key |-> kept[i].date, val |-> kept[i]]]
      events == stableSortByKey(keyed)
      typeSet == {kept[i].trackName : i \in 1..Len(kept)}
      typeNames == sortedNames(typeSet)
  IN [times |-> [i \in 1..Len(events) |-> events[i].val.date],
      types |-> [i \in 1..Len(events) |-> events[i].val.trackName],
      reps |-> [i \in 1..Len(events) |-> events[i].val.n],
      typeIndex |-> [name \in typeSet |->
                       (CHOOSE idx \in 1..Len(typeNames) : typeNames[idx] = name) - 1],
      typeNames |-> typeNames]

\* stream.times.length: every entry of times stands for reps[i] tracks
streamLength(stream) == SumSeq(stream.reps)

(***************************************************************************)
(* fit.ts                                                                  *)
(***************************************************************************)
\* countsByType[k] >= 10 in fitFullModel
minTargetEvents == 10

\* counts[idx]++ for every entry of stream.types; the result is indexed by
\* the 0-based type index
computeCountsByType(stream, numTypes) ==
  [k \in 0..(numTypes - 1) |->
     SumSeq([i \in 1..Len(stream.types) |->
               IF stream.typeIndex[stream.types[i]] = k
               THEN stream.reps[i] ELSE 0])]

\* the loop pushing every type index
RECURSIVE eligibleFromAll(_, _, _)
eligibleFromAll(counts, k, numTypes) ==
  IF k >= numTypes THEN << >>
  ELSE << k >> \o eligibleFromAll(counts, k + 1, numTypes)

\* the loop of lines 178-183
RECURSIVE eligibleFrom(_, _, _)
eligibleFrom(counts, k, numTypes) ==
  IF k >= numTypes THEN << >>
  ELSE (IF counts[k] >= minTargetEvents THEN << k >> ELSE << >>)
       \o eligibleFrom(counts, k + 1, numTypes)

eligibleTypesOf(stream) ==
  LET numTypes == Len(stream.typeNames)
  IN eligibleFrom(computeCountsByType(stream, numTypes), 0, numTypes)

\* Math.round of a non-negative fraction num / den
roundDiv(num, den) == (2 * num + den) \div (2 * den)

\* percent of the i-th (0-based) of n eligible targets, lines 189-190
fitPercent(i, n) == roundDiv(i * 100, n)

(***************************************************************************)
(* basis.ts.  Weights, kernel values and curve values are kept in          *)
(* thousandths; a lag is counted in ticks of a tenth of a second (the      *)
(* source counts hours, and milliseconds in its results).                  *)
(***************************************************************************)
\* MS_PER_HOUR, in ticks
TicksPerHour == 36000

\* numBases = 6 of runAnalysis: taus.slice(0, numBases) of
\* createExponentialBasis, 5 min, 15 min, 1 h, 4 h, 12 h and 24 h
numBases == 6
taus == << 3000, 9000, 36000, 144000, 432000, 864000 >>

\* maxLagHours = 7 * 24
maxLagTicks == 168 * TicksPerHour

\* resolution of findPeakLag and of findMassTime
peakResolution == 200
massResolution == 500

absInt(x) == IF x < 0 THEN -x ELSE x

\* lagHours of findPeakLag for i = 0 .. 199: (5 / 60) * ratio ^ (i / 199)
peakLagGrid ==
  << 3000, 3117, 3238, 3365, 3496, 3632, 3774, 3921, 4073, 4232,
     4397, 4569, 4747, 4932, 5124, 5324, 5531, 5747, 5971, 6203,
     6445, 6696, 6957, 7228, 7510, 7803, 8107, 8423, 8751, 9092,
     9447, 9815, 10198, 10595, 11008, 11437, 11883, 12346, 12827, 13327,
     13847, 14386, 14947, 15529, 16135, 16764, 17417, 18096, 18801, 19534,
     20295, 21086, 21908, 22762, 23649, 24571, 25529, 26524, 27557, 28632,
     29747, 30907, 32112, 33363, 34663, 36015, 37418, 38877, 40392, 41966,
     43602, 45301, 47067, 48901, 50807, 52788, 54845, 56983, 59204, 61511,
     63909, 66400, 68988, 71676, 74470, 77373, 80388, 83521, 86777, 90159,
     93673, 97324, 101117, 105058, 109153, 113408, 117828, 122420, 127192, 132149,
     137300, 142651, 148211, 153988, 159989, 166225, 172704, 179435, 186429, 193695,
     201245, 209088, 217238, 225705, 234502, 243642, 253138, 263004, 273255, 283905,
     294971, 306467, 318412, 330823, 343717, 357113, 371032, 385494, 400519, 416129,
     432348, 449199, 466707, 484898, 503797, 523433, 543834, 565031, 587053, 609934,
     633707, 658406, 684068, 710730, 738432, 767213, 797116, 828184, 860463, 894001,
     928845, 965048, 1002661, 1041741, 1082344, 1124529, 1168359, 1213896, 1261209, 1310366,
     1361439, 1414502, 1469633, 1526914, 1586427, 1648259, 1712501, 1779248, 1848596, 1920646,
     1995505, 2073282, 2154090, 2238048, 2325277, 2415907, 2510069, 2607902, 2709547, 2815154,
     2924877, 3038877, 3157320, 3280380, 3408235, 3541074, 3679091, 3822487, 3971472, 4126264,
     4287089, 4454182, 4627788, 4808160, 4995562, 5190269, 5392564, 5602745, 5821117, 6048000 >>

\* exponentialKernel(taus[b], lagHours) at the lags of findPeakLag
peakKernel ==
  << <<368, 717, 920, 979, 993, 997>>, <<354, 707, 917, 979, 993, 996>>, <<340, 698, 914, 978, 993, 996>>,
     <<326, 688, 911, 977, 992, 996>>, <<312, 678, 907, 976, 992, 996>>, <<298, 668, 904, 975, 992, 996>>,
     <<284, 658, 900, 974, 991, 996>>, <<271, 647, 897, 973, 991, 995>>, <<257, 636, 893, 972, 991, 995>>,
     <<244, 625, 889, 971, 990, 995>>, <<231, 613, 885, 970, 990, 995>>, <<218, 602, 881, 969, 989, 995>>,
     <<206, 590, 876, 968, 989, 995>>, <<193, 578, 872, 966, 989, 994>>, <<181, 566, 867, 965, 988, 994>>,
     <<170, 553, 863, 964, 988, 994>>, <<158, 541, 858, 962, 987, 994>>, <<147, 528, 852, 961, 987, 993>>,
     <<137, 515, 847, 959, 986, 993>>, <<126, 502, 842, 958, 986, 993>>, <<117, 489, 836, 956, 985, 993>>,
     <<107, 475, 830, 955, 985, 992>>, <<98, 462, 824, 953, 984, 992>>, <<90, 448, 818, 951, 983, 992>>,
     <<82, 434, 812, 949, 983, 991>>, <<74, 420, 805, 947, 982, 991>>, <<67, 406, 798, 945, 981, 991>>,
     <<60, 392, 791, 943, 981, 990>>, <<54, 378, 784, 941, 980, 990>>, <<48, 364, 777, 939, 979, 990>>,
     <<43, 350, 769, 937, 978, 989>>, <<38, 336, 761, 934, 978, 989>>, <<33, 322, 753, 932, 977, 988>>,
     <<29, 308, 745, 929, 976, 988>>, <<25, 294, 737, 926, 975, 987>>, <<22, 281, 728, 924, 974, 987>>,
     <<19, 267, 719, 921, 973, 986>>, <<16, 254, 710, 918, 972, 986>>, <<14, 240, 700, 915, 971, 985>>,
     <<12, 227, 691, 912, 970, 985>>, <<10, 215, 681, 908, 968, 984>>, <<8, 202, 671, 905, 967, 983>>,
     <<7, 190, 660, 901, 966, 983>>, <<6, 178, 650, 898, 965, 982>>, <<5, 167, 639, 894, 963, 981>>,
     <<4, 155, 628, 890, 962, 981>>, <<3, 144, 616, 886, 960, 980>>, <<2, 134, 605, 882, 959, 979>>,
     <<2, 124, 593, 878, 957, 978>>, <<1, 114, 581, 873, 956, 978>>, <<1, 105, 569, 869, 954, 977>>,
     <<1, 96, 557, 864, 952, 976>>, <<1, 88, 544, 859, 951, 975>>, <<1, 80, 531, 854, 949, 974>>,
     <<0, 72, 518, 849, 947, 973>>, <<0, 65, 505, 843, 945, 972>>, <<0, 59, 492, 838, 943, 971>>,
     <<0, 52, 479, 832, 940, 970>>, <<0, 47, 465, 826, 938, 969>>, <<0, 42, 451, 820, 936, 967>>,
     <<0, 37, 438, 813, 933, 966>>, <<0, 32, 424, 807, 931, 965>>, <<0, 28, 410, 800, 928, 964>>,
     <<0, 25, 396, 793, 926, 962>>, <<0, 21, 382, 786, 923, 961>>, <<0, 18, 368, 779, 920, 959>>,
     <<0, 16, 354, 771, 917, 958>>, <<0, 13, 340, 763, 914, 956>>, <<0, 11, 326, 755, 911, 954>>,
     <<0, 9, 312, 747, 907, 953>>, <<0, 8, 298, 739, 904, 951>>, <<0, 7, 284, 730, 900, 949>>,
     <<0, 5, 271, 721, 897, 947>>, <<0, 4, 257, 712, 893, 945>>, <<0, 4, 244, 703, 889, 943>>,
     <<0, 3, 231, 693, 885, 941>>, <<0, 2, 218, 683, 881, 938>>, <<0, 2, 205, 673, 876, 936>>,
     <<0, 1, 193, 663, 872, 934>>, <<0, 1, 181, 652, 867, 931>>, <<0, 1, 169, 642, 862, 929>>,
     <<0, 1, 158, 631, 858, 926>>, <<0, 0, 147, 619, 852, 923>>, <<0, 0, 137, 608, 847, 920>>,
     <<0, 0, 126, 596, 842, 917>>, <<0, 0, 117, 584, 836, 914>>, <<0, 0, 107, 572, 830, 911>>,
     <<0, 0, 98, 560, 824, 908>>, <<0, 0, 90, 547, 818, 904>>, <<0, 0, 82, 535, 812, 901>>,
     <<0, 0, 74, 522, 805, 897>>, <<0, 0, 67, 509, 798, 893>>, <<0, 0, 60, 495, 791, 890>>,
     <<0, 0, 54, 482, 784, 886>>, <<0, 0, 48, 469, 777, 881>>, <<0, 0, 43, 455, 769, 877>>,
     <<0, 0, 38, 441, 761, 873>>, <<0, 0, 33, 427, 753, 868>>, <<0, 0, 29, 413, 745, 863>>,
     <<0, 0, 25, 399, 736, 858>>, <<0, 0, 22, 385, 728, 853>>, <<0, 0, 19, 371, 719, 848>>,
     <<0, 0, 16, 357, 710, 842>>, <<0, 0, 14, 343, 700, 837>>, <<0, 0, 12, 329, 690, 831>>,
     <<0, 0, 10, 315, 681, 825>>, <<0, 0, 8, 301, 670, 819>>, <<0, 0, 7, 288, 660, 812>>,
     <<0, 0, 6, 274, 650, 806>>, <<0, 0, 5, 261, 639, 799>>, <<0, 0, 4, 247, 628, 792>>,
     <<0, 0, 3, 234, 616, 785>>, <<0, 0, 2, 221, 605, 778>>, <<0, 0, 2, 209, 593, 770>>,
     <<0, 0, 1, 196, 581, 762>>, <<0, 0, 1, 184, 569, 754>>, <<0, 0, 1, 172, 557, 746>>,
     <<0, 0, 1, 161, 544, 738>>, <<0, 0, 1, 150, 531, 729>>, <<0, 0, 0, 139, 518, 720>>,
     <<0, 0, 0, 129, 505, 711>>, <<0, 0, 0, 119, 492, 701>>, <<0, 0, 0, 110, 479, 692>>,
     <<0, 0, 0, 101, 465, 682>>, <<0, 0, 0, 92, 451, 672>>, <<0, 0, 0, 84, 438, 661>>,
     <<0, 0, 0, 76, 424, 651>>, <<0, 0, 0, 69, 410, 640>>, <<0, 0, 0, 62, 396, 629>>,
     <<0, 0, 0, 56, 382, 618>>, <<0, 0, 0, 50, 368, 606>>, <<0, 0, 0, 44, 354, 595>>,
     <<0, 0, 0, 39, 339, 583>>, <<0, 0, 0, 34, 325, 571>>, <<0, 0, 0, 30, 312, 558>>,
     <<0, 0, 0, 26, 298, 546>>, <<0, 0, 0, 23, 284, 533>>, <<0, 0, 0, 20, 270, 520>>,
     <<0, 0, 0, 17, 257, 507>>, <<0, 0, 0, 14, 244, 494>>, <<0, 0, 0, 12, 231, 480>>,
     <<0, 0, 0, 10, 218, 467>>, <<0, 0, 0, 9, 205, 453>>, <<0, 0, 0, 7, 193, 439>>,
     <<0, 0, 0, 6, 181, 425>>, <<0, 0, 0, 5, 169, 411>>, <<0, 0, 0, 4, 158, 397>>,
     <<0, 0, 0, 3, 147, 383>>, <<0, 0, 0, 3, 136, 369>>, <<0, 0, 0, 2, 126, 355>>,
     <<0, 0, 0, 2, 116, 341>>, <<0, 0, 0, 1, 107, 327>>, <<0, 0, 0, 1, 98, 313>>,
     <<0, 0, 0, 1, 90, 299>>, <<0, 0, 0, 1, 82, 286>>, <<0, 0, 0, 0, 74, 272>>,
     <<0, 0, 0, 0, 67, 259>>, <<0, 0, 0, 0, 60, 245>>, <<0, 0, 0, 0, 54, 232>>,
     <<0, 0, 0, 0, 48, 219>>, <<0, 0, 0, 0, 43, 207>>, <<0, 0, 0, 0, 38, 195>>,
     <<0, 0, 0, 0, 33, 183>>, <<0, 0, 0, 0, 29, 171>>, <<0, 0, 0, 0, 25, 159>>,
     <<0, 0, 0, 0, 22, 148>>, <<0, 0, 0, 0, 19, 138>>, <<0, 0, 0, 0, 16, 128>>,
     <<0, 0, 0, 0, 14, 118>>, <<0, 0, 0, 0, 12, 108>>, <<0, 0, 0, 0, 10, 99>>,
     <<0, 0, 0, 0, 8, 91>>, <<0, 0, 0, 0, 7, 83>>, <<0, 0, 0, 0, 6, 75>>,
     <<0, 0, 0, 0, 5, 68>>, <<0, 0, 0, 0, 4, 61>>, <<0, 0, 0, 0, 3, 55>>,
     <<0, 0, 0, 0, 2, 49>>, <<0, 0, 0, 0, 2, 43>>, <<0, 0, 0, 0, 1, 38>>,
     <<0, 0, 0, 0, 1, 34>>, <<0, 0, 0, 0, 1, 30>>, <<0, 0, 0, 0, 1, 26>>,
     <<0, 0, 0, 0, 1, 22>>, <<0, 0, 0, 0, 0, 19>>, <<0, 0, 0, 0, 0, 17>>,
     <<0, 0, 0, 0, 0, 14>>, <<0, 0, 0, 0, 0, 12>>, <<0, 0, 0, 0, 0, 10>>,
     <<0, 0, 0, 0, 0, 8>>, <<0, 0, 0, 0, 0, 7>>, <<0, 0, 0, 0, 0, 6>>,
     <<0, 0, 0, 0, 0, 5>>, <<0, 0, 0, 0, 0, 4>>, <<0, 0, 0, 0, 0, 3>>,
     <<0, 0, 0, 0, 0, 2>>, <<0, 0, 0, 0, 0, 2>>, <<0, 0, 0, 0, 0, 2>>,
     <<0, 0, 0, 0, 0, 1>>, <<0, 0, 0, 0, 0, 1>> >>

\* lagHours of findMassTime for i = 0 .. 499: (1 / 60) * ratio ^ (i / 499)
massLagGrid ==
  << 600, 611, 623, 634, 646, 658, 670, 683, 696, 709,
     722, 735, 749, 763, 777, 792, 806, 821, 837, 852,
     868, 884, 901, 918, 935, 952, 970, 988, 1006, 1025,
     1044, 1064, 1084, 1104, 1124, 1145, 1167, 1189, 1211, 1233,
     1256, 1280, 1304, 1328, 1353, 1378, 1403, 1430, 1456, 1483,
     1511, 1539, 1568, 1597, 1627, 1657, 1688, 1720, 1752, 1784,
     1818, 1852, 1886, 1921, 1957, 1994, 2031, 2069, 2107, 2147,
     2187, 2227, 2269, 2311, 2354, 2398, 2443, 2488, 2535, 2582,
     2630, 2679, 2729, 2780, 2832, 2885, 2939, 2993, 3049, 3106,
     3164, 3223, 3283, 3344, 3407, 3470, 3535, 3601, 3668, 3736,
     3806, 3877, 3949, 4023, 4098, 4174, 4252, 4331, 4412, 4494,
     4578, 4663, 4750, 4839, 4929, 5021, 5115, 5210, 5307, 5406,
     5507, 5610, 5714, 5821, 5929, 6040, 6152, 6267, 6384, 6503,
     6624, 6748, 6874, 7002, 7132, 7265, 7401, 7539, 7679, 7822,
     7968, 8117, 8268, 8422, 8579, 8739, 8902, 9068, 9237, 9410,
     9585, 9764, 9946, 10131, 10320, 10513, 10709, 10908, 11112, 11319,
     11530, 11745, 11964, 12187, 12414, 12646, 12881, 13122, 13366, 13615,
     13869, 14128, 14391, 14660, 14933, 15211, 15495, 15784, 16078, 16378,
     16683, 16994, 17311, 17634, 17963, 18298, 18639, 18987, 19341, 19701,
     20069, 20443, 20824, 21212, 21608, 22010, 22421, 22839, 23265, 23699,
     24140, 24591, 25049, 25516, 25992, 26476, 26970, 27473, 27985, 28507,
     29039, 29580, 30131, 30693, 31266, 31849, 32442, 33047, 33663, 34291,
     34930, 35582, 36245, 36921, 37609, 38311, 39025, 39753, 40494, 41249,
     42018, 42801, 43599, 44412, 45240, 46084, 46943, 47818, 48710, 49618,
     50543, 51486, 52446, 53423, 54420, 55434, 56468, 57521, 58593, 59686,
     60799, 61932, 63087, 64263, 65461, 66682, 67925, 69192, 70482, 71796,
     73135, 74498, 75887, 77302, 78743, 80212, 81707, 83231, 84783, 86363,
     87974, 89614, 91285, 92987, 94721, 96487, 98286, 100118, 101985, 103886,
     105823, 107797, 109806, 111854, 113939, 116064, 118228, 120432, 122678, 124965,
     127295, 129669, 132086, 134549, 137058, 139613, 142216, 144868, 147569, 150321,
     153123, 155978, 158887, 161849, 164867, 167941, 171072, 174262, 177511, 180821,
     184192, 187626, 191125, 194688, 198318, 202016, 205783, 209620, 213528, 217509,
     221565, 225696, 229904, 234191, 238557, 243005, 247536, 252151, 256853, 261642,
     266520, 271490, 276552, 281708, 286961, 292311, 297761, 303313, 308968, 314729,
     320597, 326575, 332664, 338867, 345185, 351621, 358177, 364855, 371658, 378588,
     385647, 392837, 400162, 407623, 415223, 422965, 430851, 438885, 447068, 455404,
     463895, 472544, 481355, 490330, 499472, 508785, 518271, 527935, 537778, 547805,
     558019, 568423, 579022, 589818, 600815, 612018, 623429, 635053, 646893, 658955,
     671241, 683757, 696506, 709492, 722721, 736196, 749923, 763905, 778148, 792657,
     807437, 822491, 837827, 853448, 869361, 885571, 902082, 918902, 936035, 953488,
     971266, 989375, 1007822, 1026613, 1045755, 1065253, 1085115, 1105347, 1125957, 1146951,
     1168336, 1190120, 1212310, 1234914, 1257939, 1281394, 1305286, 1329623, 1354414, 1379667,
     1405392, 1431596, 1458288, 1485478, 1513175, 1541389, 1570128, 1599404, 1629225, 1659603,
     1690546, 1722067, 1754175, 1786882, 1820199, 1854137, 1888708, 1923924, 1959796, 1996337,
     2033559, 2071475, 2110098, 2149442, 2189518, 2230343, 2271928, 2314289, 2357439, 2401394,
     2446169, 2491778, 2538238, 2585564, 2633773, 2682880, 2732903, 2783859, 2835764, 2888638,
     2942497, 2997361, 3053247, 3110176, 3168166, 3227237, 3287410, 3348705, 3411142, 3474744,
     3539531, 3605527, 3672753, 3741232, 3810988, 3882045, 3954427, 4028158, 4103264, 4179771,
     4257703, 4337089, 4417956, 4500329, 4584239, 4669714, 4756782, 4845473, 4935818, 5027848,
     5121593, 5217087, 5314361, 5413448, 5514383, 5617200, 5721934, 5828621, 5937298, 6048000 >>

\* dt = nextLagHours - lagHours of findMassTime
massDt ==
  << 11, 11, 12, 12, 12, 12, 12, 13, 13, 13,
     13, 14, 14, 14, 14, 15, 15, 15, 16, 16,
     16, 16, 17, 17, 17, 18, 18, 18, 19, 19,
     19, 20, 20, 21, 21, 21, 22, 22, 23, 23,
     23, 24, 24, 25, 25, 26, 26, 27, 27, 28,
     28, 29, 29, 30, 30, 31, 31, 32, 33, 33,
     34, 35, 35, 36, 36, 37, 38, 39, 39, 40,
     41, 42, 42, 43, 44, 45, 46, 46, 47, 48,
     49, 50, 51, 52, 53, 54, 55, 56, 57, 58,
     59, 60, 61, 62, 64, 65, 66, 67, 68, 70,
     71, 72, 74, 75, 76, 78, 79, 81, 82, 84,
     85, 87, 89, 90, 92, 94, 95, 97, 99, 101,
     103, 105, 107, 109, 111, 113, 115, 117, 119, 121,
     124, 126, 128, 131, 133, 135, 138, 141, 143, 146,
     149, 151, 154, 157, 160, 163, 166, 169, 172, 175,
     179, 182, 185, 189, 192, 196, 200, 203, 207, 211,
     215, 219, 223, 227, 231, 236, 240, 245, 249, 254,
     259, 263, 268, 273, 278, 284, 289, 294, 300, 305,
     311, 317, 323, 329, 335, 341, 348, 354, 361, 367,
     374, 381, 388, 396, 403, 410, 418, 426, 434, 442,
     450, 458, 467, 476, 485, 494, 503, 512, 522, 532,
     541, 552, 562, 572, 583, 594, 605, 616, 628, 639,
     651, 663, 676, 688, 701, 714, 728, 741, 755, 769,
     783, 798, 813, 828, 844, 859, 875, 892, 908, 925,
     942, 960, 978, 996, 1015, 1034, 1053, 1072, 1092, 1113,
     1134, 1155, 1176, 1198, 1221, 1243, 1266, 1290, 1314, 1339,
     1364, 1389, 1415, 1441, 1468, 1496, 1523, 1552, 1581, 1610,
     1640, 1671, 1702, 1734, 1766, 1799, 1833, 1867, 1902, 1937,
     1973, 2010, 2047, 2086, 2124, 2164, 2204, 2245, 2287, 2330,
     2373, 2418, 2463, 2509, 2555, 2603, 2652, 2701, 2751, 2803,
     2855, 2908, 2962, 3018, 3074, 3131, 3190, 3249, 3310, 3371,
     3434, 3498, 3564, 3630, 3698, 3767, 3837, 3908, 3981, 4056,
     4131, 4208, 4287, 4367, 4448, 4531, 4615, 4701, 4789, 4878,
     4969, 5062, 5156, 5253, 5350, 5450, 5552, 5655, 5761, 5868,
     5978, 6089, 6203, 6318, 6436, 6556, 6678, 6803, 6930, 7059,
     7190, 7325, 7461, 7600, 7742, 7886, 8033, 8183, 8336, 8491,
     8649, 8811, 8975, 9142, 9313, 9486, 9663, 9843, 10027, 10214,
     10404, 10598, 10796, 10997, 11202, 11411, 11624, 11841, 12061, 12286,
     12515, 12749, 12987, 13229, 13475, 13727, 13983, 14243, 14509, 14779,
     15055, 15336, 15621, 15913, 16209, 16512, 16820, 17133, 17453, 17778,
     18109, 18447, 18791, 19141, 19498, 19862, 20232, 20609, 20994, 21385,
     21784, 22190, 22604, 23025, 23455, 23892, 24337, 24791, 25253, 25724,
     26204, 26692, 27190, 27697, 28214, 28740, 29275, 29821, 30377, 30944,
     31521, 32108, 32707, 33317, 33938, 34571, 35215, 35872, 36541, 37222,
     37916, 38623, 39343, 40077, 40824, 41585, 42361, 43151, 43955, 44775,
     45609, 46460, 47326, 48209, 49107, 50023, 50956, 51906, 52874, 53859,
     54864, 55887, 56929, 57990, 59071, 60173, 61295, 62437, 63602, 64787,
     65995, 67226, 68479, 69756, 71057, 72382, 73731, 75106, 76506, 77933,
     79386, 80866, 82374, 83910, 85474, 87068, 88691, 90345, 92030, 93746,
     95493, 97274, 99088, 100935, 102817, 104734, 106687, 108676, 110702, 112767 >>

\* exponentialKernel(taus[b], lagHours) at the lags of findMassTime
massKernel ==
  << <<819, 936, 983, 996, 999, 999>>, <<816, 934, 983, 996, 999, 999>>, <<813, 933, 983, 996, 999, 999>>,
     <<809, 932, 983, 996, 999, 999>>, <<806, 931, 982, 996, 999, 999>>, <<803, 929, 982, 995, 998, 999>>,
     <<800, 928, 982, 995, 998, 999>>, <<796, 927, 981, 995, 998, 999>>, <<793, 926, 981, 995, 998, 999>>,
     <<790, 924, 981, 995, 998, 999>>, <<786, 923, 980, 995, 998, 999>>, <<783, 922, 980, 995, 998, 999>>,
     <<779, 920, 979, 995, 998, 999>>, <<775, 919, 979, 995, 998, 999>>, <<772, 917, 979, 995, 998, 999>>,
     <<768, 916, 978, 995, 998, 999>>, <<764, 914, 978, 994, 998, 999>>, <<760, 913, 977, 994, 998, 999>>,
     <<757, 911, 977, 994, 998, 999>>, <<753, 910, 977, 994, 998, 999>>, <<749, 908, 976, 994, 998, 999>>,
     <<745, 906, 976, 994, 998, 999>>, <<741, 905, 975, 994, 998, 999>>, <<736, 903, 975, 994, 998, 999>>,
     <<732, 901, 974, 994, 998, 999>>, <<728, 900, 974, 993, 998, 999>>, <<724, 898, 973, 993, 998, 999>>,
     <<719, 896, 973, 993, 998, 999>>, <<715, 894, 972, 993, 998, 999>>, <<711, 892, 972, 993, 998, 999>>,
     <<706, 890, 971, 993, 998, 999>>, <<701, 889, 971, 993, 998, 999>>, <<697, 887, 970, 993, 997, 999>>,
     <<692, 885, 970, 992, 997, 999>>, <<687, 883, 969, 992, 997, 999>>, <<683, 880, 969, 992, 997, 999>>,
     <<678, 878, 968, 992, 997, 999>>, <<673, 876, 968, 992, 997, 999>>, <<668, 874, 967, 992, 997, 999>>,
     <<663, 872, 966, 991, 997, 999>>, <<658, 870, 966, 991, 997, 999>>, <<653, 867, 965, 991, 997, 999>>,
     <<648, 865, 964, 991, 997, 998>>, <<642, 863, 964, 991, 997, 998>>, <<637, 860, 963, 991, 997, 998>>,
     <<632, 858, 962, 990, 997, 998>>, <<626, 856, 962, 990, 997, 998>>, <<621, 853, 961, 990, 997, 998>>,
     <<615, 851, 960, 990, 997, 998>>, <<610, 848, 960, 990, 997, 998>>, <<604, 845, 959, 990, 997, 998>>,
     <<599, 843, 958, 989, 996, 998>>, <<593, 840, 957, 989, 996, 998>>, <<587, 837, 957, 989, 996, 998>>,
     <<581, 835, 956, 989, 996, 998>>, <<576, 832, 955, 989, 996, 998>>, <<570, 829, 954, 988, 996, 998>>,
     <<564, 826, 953, 988, 996, 998>>, <<558, 823, 953, 988, 996, 998>>, <<552, 820, 952, 988, 996, 998>>,
     <<546, 817, 951, 987, 996, 998>>, <<539, 814, 950, 987, 996, 998>>, <<533, 811, 949, 987, 996, 998>>,
     <<527, 808, 948, 987, 996, 998>>, <<521, 805, 947, 987, 995, 998>>, <<515, 801, 946, 986, 995, 998>>,
     <<508, 798, 945, 986, 995, 998>>, <<502, 795, 944, 986, 995, 998>>, <<495, 791, 943, 985, 995, 998>>,
     <<489, 788, 942, 985, 995, 998>>, <<482, 784, 941, 985, 995, 997>>, <<476, 781, 940, 985, 995, 997>>,
     <<469, 777, 939, 984, 995, 997>>, <<463, 774, 938, 984, 995, 997>>, <<456, 770, 937, 984, 995, 997>>,
     <<450, 766, 936, 983, 994, 997>>, <<443, 762, 934, 983, 994, 997>>, <<436, 758, 933, 983, 994, 997>>,
     <<430, 755, 932, 983, 994, 997>>, <<423, 751, 931, 982, 994, 997>>, <<416, 747, 930, 982, 994, 997>>,
     <<409, 743, 928, 982, 994, 997>>, <<403, 738, 927, 981, 994, 997>>, <<396, 734, 926, 981, 994, 997>>,
     <<389, 730, 924, 981, 993, 997>>, <<382, 726, 923, 980, 993, 997>>, <<375, 721, 922, 980, 993, 997>>,
     <<369, 717, 920, 979, 993, 997>>, <<362, 713, 919, 979, 993, 996>>, <<355, 708, 917, 979, 993, 996>>,
     <<348, 704, 916, 978, 993, 996>>, <<342, 699, 914, 978, 993, 996>>, <<335, 694, 913, 977, 992, 996>>,
     <<328, 690, 911, 977, 992, 996>>, <<321, 685, 910, 977, 992, 996>>, <<315, 680, 908, 976, 992, 996>>,
     <<308, 675, 906, 976, 992, 996>>, <<301, 670, 905, 975, 992, 996>>, <<294, 665, 903, 975, 992, 996>>,
     <<288, 660, 901, 974, 991, 996>>, <<281, 655, 900, 974, 991, 996>>, <<275, 650, 898, 973, 991, 996>>,
     <<268, 645, 896, 973, 991, 995>>, <<262, 640, 894, 972, 991, 995>>, <<255, 634, 892, 972, 991, 995>>,
     <<249, 629, 891, 971, 990, 995>>, <<242, 623, 889, 971, 990, 995>>, <<236, 618, 887, 970, 990, 995>>,
     <<230, 612, 885, 970, 990, 995>>, <<224, 607, 883, 969, 990, 995>>, <<217, 601, 881, 969, 989, 995>>,
     <<211, 596, 879, 968, 989, 995>>, <<205, 590, 876, 968, 989, 995>>, <<199, 584, 874, 967, 989, 994>>,
     <<193, 578, 872, 966, 989, 994>>, <<188, 572, 870, 966, 988, 994>>, <<182, 566, 868, 965, 988, 994>>,
     <<176, 561, 865, 964, 988, 994>>, <<170, 555, 863, 964, 988, 994>>, <<165, 548, 861, 963, 988, 994>>,
     <<160, 542, 858, 962, 987, 994>>, <<154, 536, 856, 962, 987, 994>>, <<149, 530, 853, 961, 987, 993>>,
     <<144, 524, 851, 960, 987, 993>>, <<139, 517, 848, 960, 986, 993>>, <<134, 511, 846, 959, 986, 993>>,
     <<129, 505, 843, 958, 986, 993>>, <<124, 498, 840, 957, 986, 993>>, <<119, 492, 838, 957, 985, 993>>,
     <<114, 486, 835, 956, 985, 993>>, <<110, 479, 832, 955, 985, 992>>, <<105, 472, 829, 954, 985, 992>>,
     <<101, 466, 826, 953, 984, 992>>, <<97, 459, 823, 953, 984, 992>>, <<93, 453, 820, 952, 984, 992>>,
     <<89, 446, 817, 951, 983, 992>>, <<85, 439, 814, 950, 983, 991>>, <<81, 433, 811, 949, 983, 991>>,
     <<77, 426, 808, 948, 982, 991>>, <<74, 419, 805, 947, 982, 991>>, <<70, 413, 801, 946, 982, 991>>,
     <<67, 406, 798, 945, 981, 991>>, <<64, 399, 795, 944, 981, 990>>, <<60, 392, 791, 943, 981, 990>>,
     <<57, 385, 788, 942, 980, 990>>, <<54, 379, 784, 941, 980, 990>>, <<51, 372, 781, 940, 980, 990>>,
     <<49, 365, 777, 939, 979, 990>>, <<46, 358, 774, 938, 979, 989>>, <<43, 352, 770, 937, 978, 989>>,
     <<41, 345, 766, 936, 978, 989>>, <<39, 338, 762, 934, 978, 989>>, <<36, 331, 759, 933, 977, 989>>,
     <<34, 324, 755, 932, 977, 988>>, <<32, 318, 751, 931, 976, 988>>, <<30, 311, 747, 930, 976, 988>>,
     <<28, 304, 743, 928, 976, 988>>, <<26, 298, 739, 927, 975, 987>>, <<25, 291, 734, 926, 975, 987>>,
     <<23, 284, 730, 924, 974, 987>>, <<21, 278, 726, 923, 974, 987>>, <<20, 271, 722, 922, 973, 986>>,
     <<19, 265, 717, 920, 973, 986>>, <<17, 258, 713, 919, 972, 986>>, <<16, 252, 708, 917, 972, 986>>,
     <<15, 245, 704, 916, 971, 985>>, <<14, 239, 699, 914, 971, 985>>, <<13, 233, 695, 913, 970, 985>>,
     <<12, 226, 690, 911, 970, 985>>, <<11, 220, 685, 910, 969, 984>>, <<10, 214, 680, 908, 968, 984>>,
     <<9, 208, 675, 907, 968, 984>>, <<8, 202, 670, 905, 967, 983>>, <<8, 196, 666, 903, 967, 983>>,
     <<7, 190, 660, 901, 966, 983>>, <<6, 184, 655, 900, 965, 983>>, <<6, 179, 650, 898, 965, 982>>,
     <<5, 173, 645, 896, 964, 982>>, <<5, 168, 640, 894, 963, 982>>, <<4, 162, 634, 892, 963, 981>>,
     <<4, 157, 629, 891, 962, 981>>, <<3, 151, 624, 889, 961, 981>>, <<3, 146, 618, 887, 961, 980>>,
     <<3, 141, 613, 885, 960, 980>>, <<3, 136, 607, 883, 959, 979>>, <<2, 131, 602, 881, 959, 979>>,
     <<2, 126, 596, 879, 958, 979>>, <<2, 121, 590, 876, 957, 978>>, <<2, 117, 584, 874, 956, 978>>,
     <<1, 112, 579, 872, 955, 977>>, <<1, 108, 573, 870, 955, 977>>, <<1, 103, 567, 868, 954, 977>>,
     <<1, 99, 561, 865, 953, 976>>, <<1, 95, 555, 863, 952, 976>>, <<1, 91, 549, 861, 951, 975>>,
     <<1, 87, 543, 858, 950, 975>>, <<1, 83, 536, 856, 949, 974>>, <<0, 79, 530, 853, 949, 974>>,
     <<0, 75, 524, 851, 948, 973>>, <<0, 72, 518, 848, 947, 973>>, <<0, 68, 511, 846, 946, 972>>,
     <<0, 65, 505, 843, 945, 972>>, <<0, 62, 499, 840, 944, 971>>, <<0, 59, 492, 838, 943, 971>>,
     <<0, 56, 486, 835, 942, 970>>, <<0, 53, 479, 832, 941, 970>>, <<0, 50, 473, 829, 939, 969>>,
     <<0, 47, 466, 826, 938, 969>>, <<0, 45, 460, 823, 937, 968>>, <<0, 42, 453, 820, 936, 968>>,
     <<0, 40, 446, 817, 935, 967>>, <<0, 37, 440, 814, 934, 966>>, <<0, 35, 433, 811, 933, 966>>,
     <<0, 33, 426, 808, 931, 965>>, <<0, 31, 420, 805, 930, 964>>, <<0, 29, 413, 802, 929, 964>>,
     <<0, 27, 406, 798, 928, 963>>, <<0, 25, 399, 795, 926, 962>>, <<0, 24, 393, 792, 925, 962>>,
     <<0, 22, 386, 788, 924, 961>>, <<0, 21, 379, 785, 922, 960>>, <<0, 19, 372, 781, 921, 960>>,
     <<0, 18, 365, 777, 920, 959>>, <<0, 17, 359, 774, 918, 958>>, <<0, 15, 352, 770, 917, 957>>,
     <<0, 14, 345, 766, 915, 957>>, <<0, 13, 338, 763, 914, 956>>, <<0, 12, 331, 759, 912, 955>>,
     <<0, 11, 325, 755, 911, 954>>, <<0, 10, 318, 751, 909, 953>>, <<0, 9, 311, 747, 907, 953>>,
     <<0, 9, 305, 743, 906, 952>>, <<0, 8, 298, 739, 904, 951>>, <<0, 7, 291, 735, 902, 950>>,
     <<0, 7, 285, 730, 901, 949>>, <<0, 6, 278, 726, 899, 948>>, <<0, 5, 271, 722, 897, 947>>,
     <<0, 5, 265, 717, 895, 946>>, <<0, 4, 258, 713, 893, 945>>, <<0, 4, 252, 709, 891, 944>>,
     <<0, 4, 246, 704, 890, 943>>, <<0, 3, 239, 699, 888, 942>>, <<0, 3, 233, 695, 886, 941>>,
     <<0, 3, 227, 690, 884, 940>>, <<0, 2, 221, 685, 882, 939>>, <<0, 2, 214, 680, 880, 938>>,
     <<0, 2, 208, 676, 877, 937>>, <<0, 2, 202, 671, 875, 936>>, <<0, 1, 196, 666, 873, 934>>,
     <<0, 1, 191, 661, 871, 933>>, <<0, 1, 185, 656, 869, 932>>, <<0, 1, 179, 650, 866, 931>>,
     <<0, 1, 173, 645, 864, 930>>, <<0, 1, 168, 640, 862, 928>>, <<0, 1, 162, 635, 859, 927>>,
     <<0, 1, 157, 629, 857, 926>>, <<0, 1, 152, 624, 855, 924>>, <<0, 0, 146, 618, 852, 923>>,
     <<0, 0, 141, 613, 849, 922>>, <<0, 0, 136, 607, 847, 920>>, <<0, 0, 131, 602, 844, 919>>,
     <<0, 0, 126, 596, 842, 917>>, <<0, 0, 121, 590, 839, 916>>, <<0, 0, 117, 585, 836, 914>>,
     <<0, 0, 112, 579, 833, 913>>, <<0, 0, 108, 573, 831, 911>>, <<0, 0, 103, 567, 828, 910>>,
     <<0, 0, 99, 561, 825, 908>>, <<0, 0, 95, 555, 822, 907>>, <<0, 0, 91, 549, 819, 905>>,
     <<0, 0, 87, 543, 816, 903>>, <<0, 0, 83, 537, 813, 901>>, <<0, 0, 79, 531, 810, 900>>,
     <<0, 0, 76, 524, 806, 898>>, <<0, 0, 72, 518, 803, 896>>, <<0, 0, 69, 512, 800, 894>>,
     <<0, 0, 65, 505, 797, 892>>, <<0, 0, 62, 499, 793, 891>>, <<0, 0, 59, 493, 790, 889>>,
     <<0, 0, 56, 486, 786, 887>>, <<0, 0, 53, 480, 783, 885>>, <<0, 0, 50, 473, 779, 883>>,
     <<0, 0, 47, 466, 776, 881>>, <<0, 0, 45, 460, 772, 879>>, <<0, 0, 42, 453, 768, 876>>,
     <<0, 0, 40, 447, 764, 874>>, <<0, 0, 37, 440, 761, 872>>, <<0, 0, 35, 433, 757, 870>>,
     <<0, 0, 33, 427, 753, 868>>, <<0, 0, 31, 420, 749, 865>>, <<0, 0, 29, 413, 745, 863>>,
     <<0, 0, 27, 406, 741, 861>>, <<0, 0, 26, 400, 737, 858>>, <<0, 0, 24, 393, 732, 856>>,
     <<0, 0, 22, 386, 728, 853>>, <<0, 0, 21, 379, 724, 851>>, <<0, 0, 19, 372, 719, 848>>,
     <<0, 0, 18, 366, 715, 846>>, <<0, 0, 17, 359, 711, 843>>, <<0, 0, 15, 352, 706, 840>>,
     <<0, 0, 14, 345, 702, 838>>, <<0, 0, 13, 339, 697, 835>>, <<0, 0, 12, 332, 692, 832>>,
     <<0, 0, 11, 325, 688, 829>>, <<0, 0, 10, 318, 683, 826>>, <<0, 0, 9, 312, 678, 823>>,
     <<0, 0, 9, 305, 673, 820>>, <<0, 0, 8, 298, 668, 817>>, <<0, 0, 7, 292, 663, 814>>,
     <<0, 0, 7, 285, 658, 811>>, <<0, 0, 6, 278, 653, 808>>, <<0, 0, 5, 272, 648, 805>>,
     <<0, 0, 5, 265, 642, 802>>, <<0, 0, 4, 259, 637, 798>>, <<0, 0, 4, 252, 632, 795>>,
     <<0, 0, 4, 246, 626, 792>>, <<0, 0, 3, 240, 621, 788>>, <<0, 0, 3, 233, 616, 785>>,
     <<0, 0, 3, 227, 610, 781>>, <<0, 0, 2, 221, 604, 777>>, <<0, 0, 2, 215, 599, 774>>,
     <<0, 0, 2, 209, 593, 770>>, <<0, 0, 2, 203, 587, 766>>, <<0, 0, 1, 197, 582, 763>>,
     <<0, 0, 1, 191, 576, 759>>, <<0, 0, 1, 185, 570, 755>>, <<0, 0, 1, 179, 564, 751>>,
     <<0, 0, 1, 174, 558, 747>>, <<0, 0, 1, 168, 552, 743>>, <<0, 0, 1, 163, 546, 739>>,
     <<0, 0, 1, 157, 540, 735>>, <<0, 0, 1, 152, 533, 730>>, <<0, 0, 0, 147, 527, 726>>,
     <<0, 0, 0, 141, 521, 722>>, <<0, 0, 0, 136, 515, 717>>, <<0, 0, 0, 131, 508, 713>>,
     <<0, 0, 0, 126, 502, 708>>, <<0, 0, 0, 122, 496, 704>>, <<0, 0, 0, 117, 489, 699>>,
     <<0, 0, 0, 112, 483, 695>>, <<0, 0, 0, 108, 476, 690>>, <<0, 0, 0, 104, 470, 685>>,
     <<0, 0, 0, 99, 463, 680>>, <<0, 0, 0, 95, 456, 676>>, <<0, 0, 0, 91, 450, 671>>,
     <<0, 0, 0, 87, 443, 666>>, <<0, 0, 0, 83, 436, 661>>, <<0, 0, 0, 79, 430, 656>>,
     <<0, 0, 0, 76, 423, 650>>, <<0, 0, 0, 72, 416, 645>>, <<0, 0, 0, 69, 410, 640>>,
     <<0, 0, 0, 65, 403, 635>>, <<0, 0, 0, 62, 396, 629>>, <<0, 0, 0, 59, 389, 624>>,
     <<0, 0, 0, 56, 382, 618>>, <<0, 0, 0, 53, 376, 613>>, <<0, 0, 0, 50, 369, 607>>,
     <<0, 0, 0, 47, 362, 602>>, <<0, 0, 0, 45, 355, 596>>, <<0, 0, 0, 42, 348, 590>>,
     <<0, 0, 0, 40, 342, 585>>, <<0, 0, 0, 38, 335, 579>>, <<0, 0, 0, 35, 328, 573>>,
     <<0, 0, 0, 33, 321, 567>>, <<0, 0, 0, 31, 315, 561>>, <<0, 0, 0, 29, 308, 555>>,
     <<0, 0, 0, 27, 301, 549>>, <<0, 0, 0, 26, 295, 543>>, <<0, 0, 0, 24, 288, 537>>,
     <<0, 0, 0, 22, 281, 530>>, <<0, 0, 0, 21, 275, 524>>, <<0, 0, 0, 19, 268, 518>>,
     <<0, 0, 0, 18, 262, 512>>, <<0, 0, 0, 17, 255, 505>>, <<0, 0, 0, 15, 249, 499>>,
     <<0, 0, 0, 14, 243, 492>>, <<0, 0, 0, 13, 236, 486>>, <<0, 0, 0, 12, 230, 479>>,
     <<0, 0, 0, 11, 224, 473>>, <<0, 0, 0, 10, 218, 466>>, <<0, 0, 0, 9, 211, 460>>,
     <<0, 0, 0, 9, 205, 453>>, <<0, 0, 0, 8, 199, 447>>, <<0, 0, 0, 7, 194, 440>>,
     <<0, 0, 0, 7, 188, 433>>, <<0, 0, 0, 6, 182, 427>>, <<0, 0, 0, 5, 176, 420>>,
     <<0, 0, 0, 5, 171, 413>>, <<0, 0, 0, 4, 165, 406>>, <<0, 0, 0, 4, 160, 400>>,
     <<0, 0, 0, 4, 154, 393>>, <<0, 0, 0, 3, 149, 386>>, <<0, 0, 0, 3, 144, 379>>,
     <<0, 0, 0, 3, 139, 372>>, <<0, 0, 0, 2, 134, 366>>, <<0, 0, 0, 2, 129, 359>>,
     <<0, 0, 0, 2, 124, 352>>, <<0, 0, 0, 2, 119, 345>>, <<0, 0, 0, 2, 115, 338>>,
     <<0, 0, 0, 1, 110, 332>>, <<0, 0, 0, 1, 106, 325>>, <<0, 0, 0, 1, 101, 318>>,
     <<0, 0, 0, 1, 97, 311>>, <<0, 0, 0, 1, 93, 305>>, <<0, 0, 0, 1, 89, 298>>,
     <<0, 0, 0, 1, 85, 291>>, <<0, 0, 0, 1, 81, 285>>, <<0, 0, 0, 0, 77, 278>>,
     <<0, 0, 0, 0, 74, 272>>, <<0, 0, 0, 0, 70, 265>>, <<0, 0, 0, 0, 67, 259>>,
     <<0, 0, 0, 0, 64, 252>>, <<0, 0, 0, 0, 60, 246>>, <<0, 0, 0, 0, 57, 239>>,
     <<0, 0, 0, 0, 54, 233>>, <<0, 0, 0, 0, 51, 227>>, <<0, 0, 0, 0, 49, 221>>,
     <<0, 0, 0, 0, 46, 215>>, <<0, 0, 0, 0, 43, 209>>, <<0, 0, 0, 0, 41, 203>>,
     <<0, 0, 0, 0, 39, 197>>, <<0, 0, 0, 0, 36, 191>>, <<0, 0, 0, 0, 34, 185>>,
     <<0, 0, 0, 0, 32, 179>>, <<0, 0, 0, 0, 30, 174>>, <<0, 0, 0, 0, 28, 168>>,
     <<0, 0, 0, 0, 26, 162>>, <<0, 0, 0, 0, 25, 157>>, <<0, 0, 0, 0, 23, 152>>,
     <<0, 0, 0, 0, 21, 146>>, <<0, 0, 0, 0, 20, 141>>, <<0, 0, 0, 0, 19, 136>>,
     <<0, 0, 0, 0, 17, 131>>, <<0, 0, 0, 0, 16, 126>>, <<0, 0, 0, 0, 15, 122>>,
     <<0, 0, 0, 0, 14, 117>>, <<0, 0, 0, 0, 13, 112>>, <<0, 0, 0, 0, 12, 108>>,
     <<0, 0, 0, 0, 11, 103>>, <<0, 0, 0, 0, 10, 99>>, <<0, 0, 0, 0, 9, 95>>,
     <<0, 0, 0, 0, 8, 91>>, <<0, 0, 0, 0, 8, 87>>, <<0, 0, 0, 0, 7, 83>>,
     <<0, 0, 0, 0, 6, 79>>, <<0, 0, 0, 0, 6, 76>>, <<0, 0, 0, 0, 5, 72>>,
     <<0, 0, 0, 0, 5, 69>>, <<0, 0, 0, 0, 4, 65>>, <<0, 0, 0, 0, 4, 62>>,
     <<0, 0, 0, 0, 3, 59>>, <<0, 0, 0, 0, 3, 56>>, <<0, 0, 0, 0, 3, 53>>,
     <<0, 0, 0, 0, 3, 50>>, <<0, 0, 0, 0, 2, 47>>, <<0, 0, 0, 0, 2, 45>>,
     <<0, 0, 0, 0, 2, 42>>, <<0, 0, 0, 0, 2, 40>>, <<0, 0, 0, 0, 1, 38>>,
     <<0, 0, 0, 0, 1, 35>>, <<0, 0, 0, 0, 1, 33>>, <<0, 0, 0, 0, 1, 31>>,
     <<0, 0, 0, 0, 1, 29>>, <<0, 0, 0, 0, 1, 27>>, <<0, 0, 0, 0, 1, 26>>,
     <<0, 0, 0, 0, 1, 24>>, <<0, 0, 0, 0, 0, 22>>, <<0, 0, 0, 0, 0, 21>>,
     <<0, 0, 0, 0, 0, 19>>, <<0, 0, 0, 0, 0, 18>>, <<0, 0, 0, 0, 0, 17>>,
     <<0, 0, 0, 0, 0, 15>>, <<0, 0, 0, 0, 0, 14>>, <<0, 0, 0, 0, 0, 13>>,
     <<0, 0, 0, 0, 0, 12>>, <<0, 0, 0, 0, 0, 11>>, <<0, 0, 0, 0, 0, 10>>,
     <<0, 0, 0, 0, 0, 9>>, <<0, 0, 0, 0, 0, 9>>, <<0, 0, 0, 0, 0, 8>>,
     <<0, 0, 0, 0, 0, 7>>, <<0, 0, 0, 0, 0, 7>>, <<0, 0, 0, 0, 0, 6>>,
     <<0, 0, 0, 0, 0, 5>>, <<0, 0, 0, 0, 0, 5>>, <<0, 0, 0, 0, 0, 4>>,
     <<0, 0, 0, 0, 0, 4>>, <<0, 0, 0, 0, 0, 4>>, <<0, 0, 0, 0, 0, 3>>,
     <<0, 0, 0, 0, 0, 3>>, <<0, 0, 0, 0, 0, 3>>, <<0, 0, 0, 0, 0, 2>>,
     <<0, 0, 0, 0, 0, 2>>, <<0, 0, 0, 0, 0, 2>>, <<0, 0, 0, 0, 0, 2>>,
     <<0, 0, 0, 0, 0, 2>>, <<0, 0, 0, 0, 0, 1>>, <<0, 0, 0, 0, 0, 1>>,
     <<0, 0, 0, 0, 0, 1>>, <<0, 0, 0, 0, 0, 1>> >>

\* taus[b] * (1 - Math.exp(-maxLagHours / taus[b])), in ticks
tauIntegral ==
  << 3000, 9000, 36000, 144000, 432000, 863212 >>

\* evaluateInfluenceCurve at a lag whose kernel values are kernelRow, in
\* millionths
evaluateInfluenceCurve(theta, kernelRow) ==
  theta[1] * kernelRow[1] + theta[2] * kernelRow[2] + theta[3] * kernelRow[3]
  + theta[4] * kernelRow[4] + theta[5] * kernelRow[5] + theta[6] * kernelRow[6]

\* one iteration of the loop of findPeakLag; i is the 0-based index of the
\* code
peakStep(theta, st) ==
  LET g == evaluateInfluenceCurve(theta, peakKernel[st.i + 1])
  IN IF absInt(g) > absInt(st.peakValue)
     THEN [i |-> st.i + 1, peakLagMs |-> peakLagGrid[st.i + 1], peakValue |-> g]
     ELSE [st EXCEPT !.i = st.i + 1]

\* n iterations of the loop, and the whole loop as blocks of iterations
RECURSIVE peakRun(_, _, _)
peakRun(theta, st, n) ==
  IF n = 0 \/ st.i >= peakResolution THEN st
  ELSE peakRun(theta, peakStep(theta, st), n - 1)

RECURSIVE peakLoop(_, _)
peakLoop(theta, st) ==
  IF st.i >= peakResolution THEN st
  ELSE peakLoop(theta, peakRun(theta, st, 20))

\* findPeakLag: peakValue in millionths, peakLagMs in ticks
peakSearch(theta) ==
  LET st == peakLoop(theta,
                     [i |-> 0, peakLagMs |-> peakLagGrid[1],
                      peakValue |-> evaluateInfluenceCurve(theta, peakKernel[1])])
  IN [peakLagMs |-> st.peakLagMs, peakValue |-> st.peakValue]

\* the weights of the fits the pipeline is run with, and their peaks: the
\* search is evaluated once for them and looked up afterwards
fittedWeights == << << 0, 0, 1000, 0, 0, 0 >> >>
peakOfFitted == << peakSearch(fittedWeights[1]) >>

findPeakLag(theta) ==
  IF \E n \in 1..Len(fittedWeights) : fittedWeights[n] = theta
  THEN peakOfFitted[CHOOSE n \in 1..Len(fittedWeights) : fittedWeights[n] = theta]
  ELSE peakSearch(theta)

\* integratedEffect, in thousandths x ticks
integratedEffect(theta) ==
  SumSeq([b \in 1..numBases |-> theta[b] * tauIntegral[b]])

\* one iteration of the loop of findMassTime; cumulative is in thousandths
\* x ticks and cumulative >= targetIntegral is tested as
\* 2 * cumulative >= |totalIntegral|
massStep(theta, total, st) ==
  LET g == evaluateInfluenceCurve(theta, massKernel[st.i + 1])
      next == st.cumulative + roundDiv(absInt(g), 1000) * massDt[st.i + 1]
  IN IF 2 * next >= absInt(total)
     THEN [i |-> st.i, cumulative |-> next, returned |-> TRUE,
           massTimeMs |-> massLagGrid[st.i + 1]]
     ELSE [st EXCEPT !.i = st.i + 1, !.cumulative = next]

\* n iterations of the loop, and the whole loop as blocks of iterations
RECURSIVE massRun(_, _, _, _)
massRun(theta, total, st, n) ==
  IF n = 0 \/ st.returned \/ st.i >= massResolution THEN st
  ELSE massRun(theta, total, massStep(theta, total, st), n - 1)

RECURSIVE massLoop(_, _, _)
massLoop(theta, total, st) ==
  IF st.returned \/ st.i >= massResolution THEN st
  ELSE massLoop(theta, total, massRun(theta, total, st, 25))

\* findMassTime(weights, taus, 0.5).massTimeMs, in ticks
findMassTime(theta) ==
  LET totalIntegral == integratedEffect(theta)
  IN IF totalIntegral = 0 THEN 0
     ELSE massLoop(theta, totalIntegral,
                   [i |-> 0, cumulative |-> 0, returned |-> FALSE,
                    massTimeMs |-> maxLagTicks]).massTimeMs

\* NUM_BASELINE_FEATURES of features.ts
NUM_BASELINE_FEATURES == 7

zeroWeights == [b \in 1..numBases |-> 0]

\* Math.log(rate) of initParamsFromData, kept as the term it is
log(num, den) == [logOf |-> << num, den >>]

\* initParamsFromData (ppglm.ts): the row of type k holds the logarithm of
\* (count + 0.5) / max(totalObservedHours, 1e-6) and six zeros
initBeta(count, hours) ==
  [j \in 1..NUM_BASELINE_FEATURES |->
     IF j = 1 THEN log(2 * count + 1, 2 * Max2(hours, 1)) ELSE 0]

(***************************************************************************)
(* fit.ts and ppglm.ts: the optimizer.  Parameters are flat arrays indexed  *)
(* from 0 as in the source, beta[k * NUM_BASELINE_FEATURES + f] and         *)
(* theta[k][src * numBases + b], with values in thousandths.  The Adam     *)
(* step is kept by its sign: the first moment m is carried exactly (as     *)
(* 10^t x m after t iterations), and since sqrt(vHat) + eps is positive    *)
(* the update is 0 when m is 0 and a step in the direction of m otherwise. *)
(***************************************************************************)
\* new Float64Array(n)
zeros(n) == [j \in 0..(n - 1) |-> 0]

\* Math.log((count + 0.5) / totalObservedHours) in thousandths, for the
\* counts 5 and 20 over 24 observed hours
logRate(count) ==
  CASE count = 5 -> -1473
    [] count = 20 -> -158

\* initParamsFromData (with initParams)
initParamsFromData(numTypes, counts) ==
  [beta |-> [j \in 0..(numTypes * NUM_BASELINE_FEATURES - 1) |->
               IF j % NUM_BASELINE_FEATURES = 0
               THEN logRate(counts[j \div NUM_BASELINE_FEATURES]) ELSE 0],
   theta |-> [k \in 0..(numTypes - 1) |-> zeros(numTypes * numBases)]]

\* the values of a number that Number.isFinite rejects, as codes far outside
\* the finite values of the model
Infinity == 100000000
negInfinity == -Infinity
notANumber == 99999999

\* Number.isFinite
isFinite(x) == x \notin {Infinity, negInfinity, notANumber}

\* a + b of two numbers
add(a, b) ==
  IF a = notANumber \/ b = notANumber THEN notANumber
  ELSE IF isFinite(a) /\ isFinite(b) THEN a + b
  ELSE IF isFinite(a) THEN b
  ELSE IF isFinite(b) \/ a = b THEN a
  ELSE notANumber

\* c * a for a finite c > 0
scale(c, a) == IF isFinite(a) THEN c * a ELSE a

\* a - b of two numbers
minus(a, b) ==
  add(a, IF b = Infinity THEN negInfinity
         ELSE IF b = negInfinity THEN Infinity
         ELSE IF b = notANumber THEN notANumber ELSE -b)

\* Math.abs
abs(x) ==
  IF x = negInfinity THEN Infinity
  ELSE IF isFinite(x) THEN absInt(x) ELSE x

\* Math.max(-50, Math.min(50, x)) alone: Math.min and Math.max return NaN
\* for a NaN argument
clampOnly(x) ==
  IF x = notANumber THEN notANumber
  ELSE IF x = Infinity THEN 50000
  ELSE IF x = negInfinity THEN -50000
  ELSE Max2(-50000, Min2(50000, x))

\* clampFinite, lines 7-10
clampFinite(x) ==
  IF ~isFinite(x) THEN 0
  ELSE Max2(-50000, Min2(50000, x))

\* learningRate = 0.01
learningRate == 10

\* a likelihood whose gradient has an entry for every type
computeLogLikelihoodAllRows(numTypes, targetType, gb, gt) ==
  [gradient |->
     [beta |-> [j \in 0..(numTypes * NUM_BASELINE_FEATURES - 1) |-> gb],
      theta |-> [k \in 0..(numTypes - 1) |->
                   [idx \in 0..(numTypes * numBases - 1) |-> gt]]]]

\* the gradient of computeLogLikelihood: betaGrad and thetaGrad start as
\* zeros and are written at targetType * NUM_BASELINE_FEATURES + f and at
\* [targetType][src * numBases + b], src # targetType, only; gb and gt
\* stand for the sums written there
computeLogLikelihood(numTypes, targetType, gb, gt) ==
  [gradient |->
     [beta |-> [j \in 0..(numTypes * NUM_BASELINE_FEATURES - 1) |->
                  IF j \div NUM_BASELINE_FEATURES = targetType THEN gb ELSE 0],
      theta |-> [k \in 0..(numTypes - 1) |->
                   [idx \in 0..(numTypes * numBases - 1) |->
                      IF k = targetType /\ idx \div numBases # targetType
                      THEN gt ELSE 0]]]]

sign(x) == IF x > 0 THEN 1 ELSE IF x < 0 THEN -1 ELSE 0

RECURSIVE pow10(_)
pow10(t) == IF t = 0 THEN 1 ELSE 10 * pow10(t - 1)

\* m = beta1 * m + (1 - beta1) * g with beta1 = 0.9, as 10^t x m
firstMoment(m, g, t) == add(scale(9, m), scale(pow10(t - 1), g))

\* learningRate * mHat / (Math.sqrt(vHat) + eps).  The second moment v is
\* NaN or Infinity from the first non-finite gradient entry on, which is
\* when m is not finite either, and the quotient is then NaN
adamUpdate(m) ==
  IF isFinite(m) THEN learningRate * sign(m) ELSE notANumber

\* the locals of fitTargetType before its loop, lines 46-69
startFit(numTypes, targetType, counts) ==
  [numTypes |-> numTypes,
   targetType |-> targetType,
   iter |-> 0,
   prevLogLik |-> negInfinity,
   converged |-> FALSE,
   logLiks |-> << >>,
   params |-> initParamsFromData(numTypes, counts),
   m_beta |-> zeros(numTypes * NUM_BASELINE_FEATURES),
   m_theta |-> [k \in 0..(numTypes - 1) |-> zeros(numTypes * numBases)]]

\* tolerance = 1e-6, a log-likelihood being counted in units of 1e-7
tolerance == 10

\* a < b for a finite b
lessThan(a, b) ==
  /\ a # notANumber
  /\ a # Infinity
  /\ (a = negInfinity \/ a < b)

\* the test of line 89 with <= for <
changeAtMostTolerance(logLik, prevLogLik) ==
  lessThan(abs(minus(logLik, prevLogLik)), tolerance + 1)

\* Math.abs(result.logLik - prevLogLik) < opts.tolerance, line 89
changeBelowTolerance(logLik, prevLogLik) ==
  lessThan(abs(minus(logLik, prevLogLik)), tolerance)

\* the updates of one iteration of fitTargetType that does not break, lines
\* 95-117: the beta loop runs over every index of params.beta, the theta
\* loop over the sources other than the target
iterateFit(opt, gb, gt) ==
  LET t == opt.iter + 1
      k == opt.targetType
      result == computeLogLikelihood(opt.numTypes, k, gb, gt)
      mBeta == [j \in DOMAIN opt.params.beta |->
                  firstMoment(opt.m_beta[j], result.gradient.beta[j], t)]
      mRow == [idx \in DOMAIN opt.params.theta[k] |->
                 IF idx \div numBases = k THEN opt.m_theta[k][idx]
                 ELSE firstMoment(opt.m_theta[k][idx],
                                  result.gradient.theta[k][idx], t)]
  IN [opt EXCEPT
        !.iter = t,
        !.m_beta = mBeta,
        !.m_theta[k] = mRow,
        !.params.beta =
           [j \in DOMAIN opt.params.beta |->
              clampFinite(add(opt.params.beta[j], adamUpdate(mBeta[j])))],
        !.params.theta[k] =
           [idx \in DOMAIN opt.params.theta[k] |->
              IF idx \div numBases = k THEN opt.params.theta[k][idx]
              ELSE clampFinite(add(opt.params.theta[k][idx],
                                   adamUpdate(mRow[idx])))]]

\* the body of the loop of fitTargetType, lines 76-117, for a likelihood
\* result of value logLik and gradient sums gb and gt; logLiks collects the
\* values of result.logLik the call has seen
loopBody(opt, logLik, gb, gt) ==
  LET seen == [opt EXCEPT !.logLiks = Append(@, logLik)]
  IN IF changeBelowTolerance(logLik, opt.prevLogLik)
     THEN [seen EXCEPT !.converged = TRUE]
     ELSE iterateFit([seen EXCEPT !.prevLogLik = logLik], gb, gt)

\* the FitResult of lines 129-134 (without logLik)
fitResultOf(opt) ==
  [params |-> opt.params,
   converged |-> opt.converged,
   iterations |-> opt.iter]

\* fitFullModel lines 197-204: the rows of target k are copied from the
\* result into the shared parameters
copyRows(shared, k, numTypes, resultParams) ==
  [beta |-> [j \in DOMAIN shared.beta |->
               IF k * NUM_BASELINE_FEATURES <= j
                  /\ j < k * NUM_BASELINE_FEATURES + NUM_BASELINE_FEATURES
               THEN resultParams.beta[j] ELSE shared.beta[j]],
   theta |-> [tgt \in DOMAIN shared.theta |->
                IF tgt = k THEN resultParams.theta[k] ELSE shared.theta[tgt]]]

(***************************************************************************)
(* basis.ts: the recursive state.  An entry S[i][b] is kept as the sum it  *)
(* holds, the set of its terms [lag, count], each standing for             *)
(* count * exp(-lag / taus[b]): multiplying the entry by                   *)
(* decayFactor(dt, taus[b]) = exp(-dt / taus[b]) adds dt to the lag of     *)
(* every term, and adding count to it adds count to its term of lag 0.     *)
(***************************************************************************)
\* initRecursiveState, lines 40-46
initRecursiveState(numTypes) ==
  [S |-> [i \in 0..(numTypes - 1) |-> [b \in 0..(numBases - 1) |-> {}]],
   lastTimeHours |-> negInfinity]

\* x > 0
positive(x) ==
  /\ x # notANumber
  /\ x # negInfinity
  /\ (x = Infinity \/ x > 0)

\* entry *= decayFactor(dt, taus[b])
timesDecayFactor(entry, dt) ==
  {[lag |-> add(e.lag, dt), count |-> e.count] : e \in entry}

\* entry += count
plusCount(entry, count) ==
  IF \E e \in entry : e.lag = 0
  THEN {IF e.lag = 0 THEN [e EXCEPT !.count = @ + count] ELSE e : e \in entry}
  ELSE entry \cup {[lag |-> 0, count |-> count]}

\* an advance that decays whenever dt > 0
advanceStateAlways(st, newTimeHours) ==
  LET dt == minus(newTimeHours, st.lastTimeHours)
  IN [S |-> IF positive(dt)
            THEN [i \in DOMAIN st.S |->
                    [b \in DOMAIN st.S[i] |-> timesDecayFactor(st.S[i][b], dt)]]
            ELSE st.S,
      lastTimeHours |-> newTimeHours]

\* advanceStateDecayOnly, lines 48-62
advanceStateDecayOnly(st, newTimeHours) ==
  LET dt == minus(newTimeHours, st.lastTimeHours)
  IN [S |-> IF positive(dt) /\ isFinite(st.lastTimeHours)
            THEN [i \in DOMAIN st.S |->
                    [b \in DOMAIN st.S[i] |-> timesDecayFactor(st.S[i][b], dt)]]
            ELSE st.S,
      lastTimeHours |-> newTimeHours]

\* incrementState of basis.ts, lines 64-74, on the state itself
incrementStateBy(st, eventType, count) ==
  IF eventType >= 0 /\ eventType < Cardinality(DOMAIN st.S)
  THEN [st EXCEPT !.S[eventType] =
          [b \in DOMAIN st.S[eventType] |-> plusCount(st.S[eventType][b], count)]]
  ELSE st

(***************************************************************************)
(* ppglm.ts and the diagnostics: where the intensity of a target is        *)
(* evaluated.  The recursive state S is kept as what it sums, the set of   *)
(* the increments [type, time, count] made so far; a likelihood and an     *)
(* integral are kept as the sequence of their terms, in the order the code *)
(* adds them, each with the state it is evaluated on.                      *)
(***************************************************************************)
\* numQuadPoints: 50 in computeLogLikelihood and 20 in
\* timeRescalingDiagnostic, 2 here
numQuadPoints == 2

\* incrementState, count times, of a state advanced to the given time
incrementState(S, eventType, time, count) ==
  IF \E e \in S : e.type = eventType /\ e.time = time
  THEN {IF e.type = eventType /\ e.time = time
        THEN [e EXCEPT !.count = e.count + count] ELSE e : e \in S}
  ELSE S \cup {[type |-> eventType, time |-> time, count |-> count]}

\* the points of the events, lines 77-89
eventPoints(strm) ==
  [i \in 1..Len(strm.times) |->
     [timeHours |-> strm.times[i], isEvent |-> TRUE,
      eventType |-> strm.typeIndex[strm.types[i]], isQuadLeft |-> FALSE,
      reps |-> strm.reps[i], dt |-> 0]]

\* the quadrature points of the windows, lines 91-106; w counts from 1 and
\* q from 0
RECURSIVE quadPoints(_, _, _)
quadPoints(windows, w, q) ==
  IF w > Len(windows) THEN << >>
  ELSE IF q >= numQuadPoints THEN quadPoints(windows, w + 1, 0)
  ELSE LET win == windows[w]
           dt == (win.endMs - win.startMs) \div numQuadPoints
       IN << [timeHours |-> win.startMs + q * dt, isEvent |-> FALSE,
              eventType |-> -1, isQuadLeft |-> TRUE, reps |-> 0, dt |-> dt] >>
          \o quadPoints(windows, w, q + 1)

\* the sort of lines 108-112: by time, a quadrature point before an event
\* of the same time, otherwise in the order pushed
buildTimePoints(strm, windows) ==
  LET points == eventPoints(strm) \o quadPoints(windows, 1, 0)
      keyed == [i \in 1..Len(points) |->
                  [key |-> 2 * points[i].timeHours
                           + (IF points[i].isQuadLeft THEN 0 ELSE 1),
                   val |-> points[i]]]
      sorted == stableSortByKey(keyed)
  IN [i \in 1..Len(sorted) |-> sorted[i].val]

\* the first index behind the points of time targetTime, from index end on
RECURSIVE findGroupEnd(_, _, _)
findGroupEnd(points, end, targetTime) ==
  IF end <= Len(points) /\ points[end].timeHours = targetTime
  THEN findGroupEnd(points, end + 1, targetTime)
  ELSE end

\* the third loop over a group: every event increments the state
RECURSIVE incrementAll(_, _, _)
incrementAll(group, j, S) ==
  IF j > Len(group) THEN S
  ELSE incrementAll(group, j + 1,
         IF group[j].isEvent
         THEN incrementState(S, group[j].eventType, group[j].timeHours,
                             group[j].reps)
         ELSE S)

\* the same term count times
repeated(term, count) == [j \in 1..count |-> term]

\* a group whose events increment the state one by one, each event of the
\* target evaluated on the state left by the events before it
groupTermsInOrder(group, S, targetType) ==
  LET quads == SelectSeq(group, LAMBDA pt : pt.isQuadLeft)
      termAt(j) ==
        IF group[j].isEvent /\ group[j].eventType = targetType
        THEN repeated([kind |-> "event", time |-> group[j].timeHours, dt |-> 0,
                       S |-> incrementAll(SubSeq(group, 1, j - 1), 1, S)],
                      group[j].reps)
        ELSE << >>
      RECURSIVE eventTerms(_)
      eventTerms(j) == IF j > Len(group) THEN << >> ELSE termAt(j) \o eventTerms(j + 1)
  IN [j \in 1..Len(quads) |->
        [kind |-> "quad", time |-> quads[j].timeHours, dt |-> quads[j].dt,
         S |-> S]]
     \o eventTerms(1)

\* the first two loops over a group of points of one time, lines 171-213:
\* the terms of its quadrature points, then one term for every event of the
\* target type, all on the state before the group
groupTerms(group, S, targetType) ==
  LET quads == SelectSeq(group, LAMBDA pt : pt.isQuadLeft)
      hits == SelectSeq(group, LAMBDA pt : pt.isEvent /\ pt.eventType = targetType)
      count == SumSeq([j \in 1..Len(hits) |-> hits[j].reps])
  IN [j \in 1..Len(quads) |->
        [kind |-> "quad", time |-> quads[j].timeHours, dt |-> quads[j].dt,
         S |-> S]]
     \o repeated([kind |-> "event", time |-> group[1].timeHours, dt |-> 0,
                  S |-> S], count)

\* a loop that adds the impulses of a group before the group is scored
RECURSIVE likelihoodLoopIncrementFirst(_, _, _, _, _)
likelihoodLoopIncrementFirst(points, i, S, targetType, terms) ==
  IF i > Len(points) THEN terms
  ELSE LET groupEnd == findGroupEnd(points, i, points[i].timeHours)
           group == SubSeq(points, i, groupEnd - 1)
           after == incrementAll(group, 1, S)
       IN likelihoodLoopIncrementFirst(points, groupEnd, after, targetType,
            terms \o groupTerms(group, after, targetType))

\* the while loop of computeLogLikelihood, lines 165-223
RECURSIVE likelihoodLoop(_, _, _, _, _)
likelihoodLoop(points, i, S, targetType, terms) ==
  IF i > Len(points) THEN terms
  ELSE LET groupEnd == findGroupEnd(points, i, points[i].timeHours)
           group == SubSeq(points, i, groupEnd - 1)
       IN likelihoodLoop(points, groupEnd, incrementAll(group, 1, S),
                         targetType, terms \o groupTerms(group, S, targetType))

\* the terms computeLogLikelihood adds to logLik and to the gradient
likelihoodTerms(strm, windows, targetType) ==
  likelihoodLoop(buildTimePoints(strm, windows), 1, {}, targetType, << >>)

\* getValidSegments of the diagnostics
getValidSegments(prevEventMs, currEventMs, windows) ==
  LET segments == [w \in 1..Len(windows) |->
                     [startMs |-> Max2(prevEventMs, windows[w].startMs),
                      endMs |-> Min2(currEventMs, windows[w].endMs)]]
  IN SelectSeq(segments, LAMBDA seg : seg.startMs < seg.endMs)

\* the left end seg.startMs + q * dtMs of every cell, times
\* 2 * numQuadPoints
RECURSIVE leftPoints(_, _, _)
leftPoints(segments, s, q) ==
  IF s > Len(segments) THEN << >>
  ELSE IF q >= numQuadPoints THEN leftPoints(segments, s + 1, 0)
  ELSE << 2 * numQuadPoints * segments[s].startMs
          + 2 * q * (segments[s].endMs - segments[s].startMs) >>
       \o leftPoints(segments, s, q + 1)

\* tMidMs = seg.startMs + (q + 0.5) * dtMs, times 2 * numQuadPoints
RECURSIVE midPoints(_, _, _)
midPoints(segments, s, q) ==
  IF s > Len(segments) THEN << >>
  ELSE IF q >= numQuadPoints THEN midPoints(segments, s + 1, 0)
  ELSE << 2 * numQuadPoints * segments[s].startMs
          + (2 * q + 1) * (segments[s].endMs - segments[s].startMs) >>
       \o midPoints(segments, s, q + 1)

\* while (stream.times[eventPtr] < tMidMs): the events before the
\* quadrature point enter the state; eventPtr counts from 1
RECURSIVE consumeBefore(_, _, _, _)
consumeBefore(strm, eventPtr, S, tMid) ==
  IF eventPtr <= Len(strm.times)
     /\ 2 * numQuadPoints * strm.times[eventPtr] < tMid
  THEN consumeBefore(strm, eventPtr + 1,
         incrementState(S, strm.typeIndex[strm.types[eventPtr]],
                        strm.times[eventPtr], strm.reps[eventPtr]), tMid)
  ELSE [eventPtr |-> eventPtr, S |-> S]

\* while (eventPtr <= currTargetIdx)
RECURSIVE consumeThrough(_, _, _, _)
consumeThrough(strm, eventPtr, S, currTargetIdx) ==
  IF eventPtr <= currTargetIdx /\ eventPtr <= Len(strm.times)
  THEN consumeThrough(strm, eventPtr + 1,
         incrementState(S, strm.typeIndex[strm.types[eventPtr]],
                        strm.times[eventPtr], strm.reps[eventPtr]),
         currTargetIdx)
  ELSE [eventPtr |-> eventPtr, S |-> S]

\* the integral between two events of the target: the evaluations at the
\* quadrature points of the segments, in order
RECURSIVE integralTerms(_, _, _, _, _)
integralTerms(strm, tMids, eventPtr, S, terms) ==
  IF tMids = << >> THEN [eventPtr |-> eventPtr, S |-> S, terms |-> terms]
  ELSE LET c == consumeBefore(strm, eventPtr, S, Head(tMids))
       IN integralTerms(strm, Tail(tMids), c.eventPtr, c.S,
                        Append(terms, [tMid |-> Head(tMids), S |-> c.S]))

\* no event of the target seen yet
noEvent == -2

\* the loop over the events of the target, lines 287-338; an entry of the
\* stream that stands for reps events gives the integral up to its first
\* event and an empty integral for each of the others
RECURSIVE diagnosticLoop(_, _, _, _, _, _, _, _)
diagnosticLoop(strm, windows, targetType, i, prevEventMs, eventPtr, S, out) ==
  IF i > Len(strm.times) THEN out
  ELSE IF strm.typeIndex[strm.types[i]] # targetType
       THEN diagnosticLoop(strm, windows, targetType, i + 1, prevEventMs,
                           eventPtr, S, out)
       ELSE LET currEventMs == strm.times[i]
                r == IF prevEventMs = noEvent
                     THEN [eventPtr |-> eventPtr, S |-> S, terms |-> << >>]
                     ELSE integralTerms(strm,
                            midPoints(getValidSegments(prevEventMs, currEventMs,
                                                       windows), 1, 0),
                            eventPtr, S, << >>)
                first == IF prevEventMs = noEvent THEN << >> ELSE << r.terms >>
                after == consumeThrough(strm, r.eventPtr, r.S, i)
            IN diagnosticLoop(strm, windows, targetType, i + 1, currEventMs,
                              after.eventPtr, after.S,
                              out \o first
                                \o repeated(<< >>, strm.reps[i] - 1))

\* timeRescalingDiagnostic: no integral for a target of fewer than 10
\* events
timeRescalingDiagnostic(strm, windows, targetType) ==
  LET targetCount == SumSeq([i \in 1..Len(strm.times) |->
                               IF strm.typeIndex[strm.types[i]] = targetType
                               THEN strm.reps[i] ELSE 0])
  IN IF targetCount < 10 THEN [transformedTimes |-> << >>]
     ELSE [transformedTimes |->
             diagnosticLoop(strm, windows, targetType, 1, noEvent, 1, {}, << >>)]

(***************************************************************************)
(* The Kolmogorov-Smirnov statistic of timeRescalingDiagnostic, lines      *)
(* 338-347.  A transformed time is counted in tenths, a probability in     *)
(* thousandths, and maxD is kept as maxD x 1000 x n so that (i + 1) / n    *)
(* is exact.                                                               *)
(***************************************************************************)
\* 1 - Math.exp(-x) for x = 0.1, 0.7 and 3
theoreticalCdf(x) ==
  CASE x = 1 -> 95
    [] x = 7 -> 503
    [] x = 30 -> 950

\* [...transformedTimes].sort((a, b) => a - b)
sortedTransformed(times) ==
  LET sorted == stableSortByKey([i \in 1..Len(times) |->
                                   [key |-> times[i], val |-> times[i]]])
  IN [i \in 1..Len(sorted) |-> sorted[i].val]

\* the loop of lines 341-347, i counting from 1
RECURSIVE maxDLoop(_, _, _)
maxDLoop(sorted, i, maxD) ==
  IF i > Len(sorted) THEN maxD
  ELSE LET n == Len(sorted)
           d == absInt(1000 * i - n * theoreticalCdf(sorted[i]))
       IN maxDLoop(sorted, i + 1, IF d > maxD THEN d ELSE maxD)

\* ksStatistic of lines 338-355
ksStatisticOf(times) == maxDLoop(sortedTransformed(times), 1, 0)

(***************************************************************************)
(* summarize.ts, the module the worker imports.  A fit is a record         *)
(* [typeNames, targetResults, beta, theta]: targetResults is the set of    *)
(* keys of fit.targetResults, beta[k] the seven baseline coefficients of   *)
(* type k and theta[tgt][src] the numBases weights of src on tgt, with     *)
(* 0-based type indices.                                                   *)
(***************************************************************************)
\* minStrength = 0.1 and the direction threshold 0.1
minStrength == 100
directionThreshold == 100000

\* Math.exp(x) of a curve value, kept as the term it is
exp(x) == [expOf |-> x]

\* msToReadableLabel: minutes below an hour, hours with one decimal below a
\* day, days with one decimal above
msToReadableLabel(ms) ==
  IF ms < TicksPerHour
  THEN [unit |-> "min", value |-> roundDiv(ms, 600)]
  ELSE IF ms < 24 * TicksPerHour
       THEN [unit |-> "h", tenths |-> roundDiv(ms, 3600)]
       ELSE [unit |-> "d", tenths |-> roundDiv(ms, 86400)]

\* extractInfluenceWeights of fit.ts
extractInfluenceWeights(fit, sourceType, targetType) ==
  fit.theta[targetType][sourceType]

\* lines 76-81: peakValue is in millionths
directionOf(peakValue, integrated) ==
  IF peakValue > directionThreshold THEN "excite"
  ELSE IF peakValue < -directionThreshold THEN "inhibit"
  ELSE "neutral"

\* lines 67-96: the edge of one ordered pair, none when the total absolute
\* weight is below the minStrength given; peakEffect is in millionths,
\* integratedEffect in thousandths x ticks, strength in thousandths
edgeOf(fit, src, tgt, minStr) ==
  LET weights == extractInfluenceWeights(fit, src, tgt)
      totalAbsWeight == SumSeq([b \in 1..numBases |-> absInt(weights[b])])
      peak == findPeakLag(weights)
      integrated == integratedEffect(weights)
  IN IF totalAbsWeight < minStr THEN << >>
     ELSE << [sourceType |-> fit.typeNames[src + 1],
              targetType |-> fit.typeNames[tgt + 1],
              peakLagMs |-> peak.peakLagMs,
              peakLagLabel |-> msToReadableLabel(peak.peakLagMs),
              peakEffect |-> peak.peakValue,
              integratedEffect |-> integrated,
              hazardRatioAtPeak |-> exp(peak.peakValue),
              direction |-> directionOf(peak.peakValue, integrated),
              strength |-> (totalAbsWeight * 1000) \div (1000 + totalAbsWeight),
              weights |-> weights] >>

\* the two loops of lines 63-98
RECURSIVE edgePairs(_, _, _, _)
edgePairs(fit, src, tgt, minStr) ==
  IF src >= Len(fit.typeNames) THEN << >>
  ELSE IF tgt >= Len(fit.typeNames) THEN edgePairs(fit, src + 1, 0, minStr)
  ELSE (IF src = tgt THEN << >> ELSE edgeOf(fit, src, tgt, minStr))
       \o edgePairs(fit, src, tgt + 1, minStr)

\* edges.sort((a, b) => b.strength - a.strength): strength grows with the
\* total absolute weight, which is the key
sortByStrength(edges) ==
  LET total(e) == SumSeq([b \in 1..numBases |-> absInt(e.weights[b])])
      keyed == [i \in 1..Len(edges) |-> [key |-> -total(edges[i]), val |-> edges[i]]]
      sorted == stableSortByKey(keyed)
  IN [i \in 1..Len(sorted) |-> sorted[i].val]

extractAllInfluenceEdges(fit, minStr) ==
  sortByStrength(edgePairs(fit, 0, 0, minStr))

\* Math.sqrt of a non-negative number, rounded down: the largest r in
\* lo .. hi with r * r <= x
RECURSIVE sqrtIn(_, _, _)
sqrtIn(x, lo, hi) ==
  IF lo >= hi THEN lo
  ELSE LET mid == (lo + hi + 1) \div 2
       IN IF mid * mid <= x THEN sqrtIn(x, mid, hi) ELSE sqrtIn(x, lo, mid - 1)

\* Math.sqrt(a ** 2 + b ** 2) of two coefficients in thousandths
amplitude(a, b) == sqrtIn(a * a + b * b, 0, absInt(a) + absInt(b))

\* pi and pi / 2 in thousandths
PiMilli == 3142
HalfPiMilli == 1571

\* Math.atan(a / b) for 0 <= a <= b, b > 0, in thousandths of a radian; the
\* coefficients of the model have the ratios 0, 1 / 3 and 1
atanRatio(a, b) ==
  CASE a = 0 -> 0
    [] 3 * a = b -> 322
    [] a = b -> 785

\* Math.atan2(y, x) in thousandths of a radian
atan2(y, x) ==
  LET ay == absInt(y)
      ax == absInt(x)
      q == IF ay = 0 /\ ax = 0 THEN 0
           ELSE IF ax >= ay THEN atanRatio(ay, ax)
           ELSE HalfPiMilli - atanRatio(ax, ay)
  IN IF x > 0 \/ (x = 0 /\ y = 0) THEN (IF y >= 0 THEN q ELSE -q)
     ELSE IF x = 0 THEN (IF y > 0 THEN HalfPiMilli ELSE -HalfPiMilli)
     ELSE (IF y >= 0 THEN PiMilli - q ELSE -(PiMilli - q))

\* the % of JavaScript: the remainder has the sign of the dividend
jsRem(a, n) == IF a >= 0 THEN a % n ELSE -((-a) % n)

\* ((period - (phase * period) / (2 * Math.PI)) % period + period) % period,
\* in thousandths
peakOfPhase(phase, period) ==
  LET raw == period * 1000 - roundDiv(phase * period * 1000, 2 * PiMilli)
  IN jsRem(jsRem(raw, period * 1000) + period * 1000, period * 1000)

\* lines 112-134: the summary of type k
baselineOf(fit, k) ==
  LET intercept == fit.beta[k][1]
      hourSin == fit.beta[k][2]
      hourCos == fit.beta[k][3]
      dowSin == fit.beta[k][6]
      dowCos == fit.beta[k][7]
  IN [typeName |-> fit.typeNames[k + 1],
      interceptLogRate |-> intercept,
      hourPeakTime |-> peakOfPhase(atan2(hourSin, hourCos), 24),
      hourAmplitude |-> amplitude(hourSin, hourCos),
      dowPeakDay |-> roundDiv(peakOfPhase(atan2(dowSin, dowCos), 7), 1000),
      dowAmplitude |-> amplitude(dowSin, dowCos)]

\* one summary per type index that has an entry in targetResults
RECURSIVE perTarget(_, _)
perTarget(fit, k) ==
  IF k >= Len(fit.typeNames) THEN << >>
  ELSE (IF k \in fit.targetResults THEN << baselineOf(fit, k) >> ELSE << >>)
       \o perTarget(fit, k + 1)

extractBaselineSummaries(fit) == perTarget(fit, 0)

maxInsights == 20

\* peakLagMs < 30 * 60 * 1000, in ticks
coOccurrenceLag == 30 * 600

\* lines 161-202: the insight of an edge, none for a neutral edge; id is the
\* number of insights pushed before it
edgeInsight(edge, id) ==
  IF edge.direction = "neutral" THEN << >>
  ELSE LET isCoOccurrence == edge.peakLagMs < coOccurrenceLag
       IN << [id |-> id,
              type |-> IF isCoOccurrence THEN "co-occurrence" ELSE "influence",
              sourceType |-> edge.sourceType,
              targetType |-> edge.targetType,
              effectSize |-> edge.hazardRatioAtPeak,
              peakLag |-> edge.peakLagLabel,
              confidence |-> Min2(1000, edge.strength)] >>

RECURSIVE edgeInsights(_, _, _)
edgeInsights(edges, i, insights) ==
  IF i > Len(edges) THEN insights
  ELSE edgeInsights(edges, i + 1,
                    insights \o edgeInsight(edges[i], Len(insights)))

\* lines 204-236: the rhythm insight of a baseline, none below both
\* amplitude thresholds 0.3 and 0.2
rhythmInsight(baseline, id) ==
  IF baseline.hourAmplitude < 300 /\ baseline.dowAmplitude < 200 THEN << >>
  ELSE << [id |-> id,
           type |-> "rhythm",
           typeName |-> baseline.typeName,
           effectSize |-> Max2(baseline.hourAmplitude, baseline.dowAmplitude),
           peakLag |-> "",
           confidence |-> 800] >>

RECURSIVE rhythmInsights(_, _, _)
rhythmInsights(baselines, i, insights) ==
  IF i > Len(baselines) THEN insights
  ELSE rhythmInsights(baselines, i + 1,
                      insights \o rhythmInsight(baselines[i], Len(insights)))

\* s.slice(0, n)
sliceTo(s, n) == SubSeq(s, 1, Min2(Len(s), n))

generateContinuousInsights(edges, baselines) ==
  LET fromEdges == edgeInsights(sliceTo(edges, (maxInsights * 6) \div 10), 1, << >>)
      all == rhythmInsights(sliceTo(baselines, (maxInsights * 4) \div 10), 1, fromEdges)
  IN sliceTo(all, maxInsights)

(***************************************************************************)
(* insights.worker.ts                                                      *)
(***************************************************************************)
\* stream.times.length < 50 || stream.typeNames.length < 2
minStreamEvents == 50
minStreamTypes == 2

\* the gate with its two tests joined by && instead of ||
insufficientDataBoth(strm) ==
  /\ streamLength(strm) < minStreamEvents
  /\ Len(strm.typeNames) < minStreamTypes

\* the gate of line 75
insufficientData(strm) ==
  \/ streamLength(strm) < minStreamEvents
  \/ Len(strm.typeNames) < minStreamTypes

\* the callback passing the percent of fitFullModel on unscaled
scaledPercentUnscaled(percent) == 15 + percent

\* 15 + Math.round(percent * 0.7)
scaledPercent(percent) == 15 + roundDiv(percent * 7, 10)

progressMsg(percent) == [type |-> "progress", percent |-> percent]
resultMsg(data) == [type |-> "result", data |-> data]
errorMsg == [type |-> "error"]

emptyStream ==
  [times |-> << >>, types |-> << >>, reps |-> << >>,
   typeIndex |-> << >>, typeNames |-> << >>]

\* both early returns posting numTypes: 0
abortedResultNoTypes(cov, hours, numEvents, numTypes) ==
  [insights |-> << >>, edges |-> << >>, baselines |-> << >>,
   diagnostics |-> << >>, coverage |-> cov, totalObservedHours |-> hours,
   numEvents |-> numEvents, numTypes |-> 0, modelFitted |-> FALSE]

\* the result posted on the two early returns of runAnalysis
abortedResult(cov, hours, numEvents, numTypes) ==
  [insights |-> << >>, edges |-> << >>, baselines |-> << >>,
   diagnostics |-> << >>, coverage |-> cov, totalObservedHours |-> hours,
   numEvents |-> numEvents, numTypes |-> numTypes, modelFitted |-> FALSE]

\* the object built for each raw edge by lines 108-118
serializableEdge(e) ==
  [sourceType |-> e.sourceType,
   targetType |-> e.targetType,
   peakLagMs |-> e.peakLagMs,
   peakLagLabel |-> e.peakLagLabel,
   peakEffect |-> e.peakEffect,
   integratedEffect |-> e.integratedEffect,
   hazardRatioAtPeak |-> e.hazardRatioAtPeak,
   direction |-> e.direction,
   strength |-> e.strength]

\* the FullModelFit returned by fitFullModel: rows of fitted targets hold
\* the outcome of their fit, the other rows their initial values
fitOf(strm, hours, results) ==
  LET numTypes == Len(strm.typeNames)
      counts == computeCountsByType(strm, numTypes)
  IN [typeNames |-> strm.typeNames,
      targetResults |-> DOMAIN results,
      beta |-> [k \in 0..(numTypes - 1) |->
                  IF k \in DOMAIN results THEN results[k].beta
                  ELSE initBeta(counts[k], hours)],
      theta |-> [tgt \in 0..(numTypes - 1) |->
                   [src \in 0..(numTypes - 1) |->
                      IF tgt \in DOMAIN results /\ src # tgt
                      THEN results[tgt].theta[src]
                      ELSE zeroWeights]]]

\* lines 122-130: one entry for every key of fit.targetResults, in the
\* order the keys were set
RECURSIVE diagnosticsFrom(_, _)
diagnosticsFrom(fit, k) ==
  IF k >= Len(fit.typeNames) THEN << >>
  ELSE (IF k \in fit.targetResults
        THEN << [typeName |-> fit.typeNames[k + 1]] >> ELSE << >>)
       \o diagnosticsFrom(fit, k + 1)

diagnosticsOf(fit) == diagnosticsFrom(fit, 0)

\* lines 104-144
fittedResult(cov, hours, strm, results) ==
  LET fit == fitOf(strm, hours, results)
      edgesRaw == extractAllInfluenceEdges(fit, minStrength)
      baselines == extractBaselineSummaries(fit)
  IN [insights |-> generateContinuousInsights(edgesRaw, baselines),
      edges |-> [i \in 1..Len(edgesRaw) |-> serializableEdge(edgesRaw[i])],
      baselines |-> baselines,
      diagnostics |-> diagnosticsOf(fit),
      coverage |-> cov,
      totalObservedHours |-> hours,
      numEvents |-> streamLength(strm),
      numTypes |-> Len(strm.typeNames),
      modelFitted |-> TRUE]

(***************************************************************************)
(* Inputs: the track lists the analysis is run on.  A list is laid out as  *)
(* a pattern of runs of days; every day of a run carries the tracks of     *)
(* the run's kind.                                                         *)
(***************************************************************************)
MaxRuns == 3

\* the tracks logged on day d by a day of the given kind
kindBlocks(kind, d) ==
  LET at(h) == d * HoursPerDay + h
      tr(name, date, n) == [trackName |-> name, date |-> date, n |-> n]
  IN CASE kind = "none" -> << >>
       [] kind = "one"  -> << tr(1, at(0), 1) >>
       [] kind = "two"  -> << tr(2, at(23), 1), tr(1, at(0), 1) >>
       [] kind = "mono" -> << tr(1, at(8), 50) >>
       [] kind = "mix"  -> << tr(2, at(9), 9), tr(1, at(8), 41) >>
       [] kind = "six"  -> [k \in 1..6 |-> tr(k, at(k), 9)]
       [] kind = "big"  -> << tr(1, at(7), 30), tr(2, at(7), 25) >>
       [] kind = "bad"  -> << tr(3, NaN, 1) >>

RECURSIVE runTracks(_, _, _)
runTracks(kind, d, len) ==
  IF len = 0 THEN << >>
  ELSE kindBlocks(kind, d) \o runTracks(kind, d + 1, len - 1)

RECURSIVE patternTracks(_, _)
patternTracks(pattern, d) ==
  IF pattern = << >> THEN << >>
  ELSE runTracks(Head(pattern).kind, d, Head(pattern).len)
       \o patternTracks(Tail(pattern), d + Head(pattern).len)

RunLens == {1, 13, 14}

PipeRuns ==
  {[kind |-> k, len |-> 1] : k \in {"two", "mono", "mix", "six", "big", "bad"}}
  \cup {[kind |-> k, len |-> l] : k \in {"none", "one"}, l \in RunLens}

Patterns(runs, maxRuns) ==
  UNION {[1..m -> runs] : m \in 0..maxRuns}

PipeInputs == {patternTracks(p, 0) : p \in Patterns(PipeRuns, MaxRuns)}

\* the outcomes of fitTargetType the pipeline is run with, as the rows
\* beta[k, .] and theta[k][src, .] of the fitted target k: one with weights
\* too small for an edge, and one with a weight of 1 on the 1 h basis of the
\* source that follows k
weakFit(k, numTypes) ==
  [beta |-> << -2000, 0, 0, 0, 0, 0, 0 >>,
   theta |-> [src \in 0..(numTypes - 1) |-> << 0, 0, 50, 0, 0, 0 >>]]

strongFit(k, numTypes) ==
  [beta |-> << -1000, 300, 900, 0, 0, 300, 900 >>,
   theta |-> [src \in 0..(numTypes - 1) |->
                IF src = (k + 1) % numTypes THEN fittedWeights[1]
                ELSE << 0, 0, 50, 0, 0, 0 >>]]

FitOutcomes(k, numTypes) == {weakFit(k, numTypes), strongFit(k, numTypes)}

(***************************************************************************)
(* State                                                                   *)
(***************************************************************************)
VARIABLES
  tracks,         \* the tracks of the 'start' message
  pc,             \* position of runAnalysis
  coverage,       \* const coverage
  windows,        \* const windows
  stream,         \* const stream
  fitStarted,     \* fitFullModel has been called
  eligibleTypes,  \* eligibleTypes of fitFullModel
  fitI,           \* loop index i of fitFullModel
  targetResults,  \* fit.targetResults: type index -> outcome of its fit
  posted,         \* the messages handed to ctx.postMessage, in order
  result,         \* useInsightsWorker: state result
  analyzing,      \* useInsightsWorker: state analyzing
  progress,       \* useInsightsWorker: state progress
  error,          \* useInsightsWorker: state error
  workerRef,      \* useInsightsWorker: workerRef.current
  mounted,        \* the component that uses the hook is mounted
  workers,        \* the Worker objects created so far, by number
  cancelled,      \* the workers whose analysis was started before a cancel()
  hostLog,        \* the worker events handled by the host, in order
  fit,            \* the FullModelFit handed to the summarizer
  edgesRaw,       \* what extractAllInfluenceEdges returned
  baselines,      \* what extractBaselineSummaries returned
  insights,       \* what generateContinuousInsights returned
  countsByType,   \* fitFullModel: countsByType
  params,         \* fitFullModel: params, the shared parameters
  optimizer,      \* the locals of the latest fitTargetType call
  opts,           \* the options of the fit and of the summarizer
  state,          \* a RecursiveState: S and lastTimeHours
  calls,          \* the calls made on state so far
  transformedTimes, \* timeRescalingDiagnostic: transformedTimes
  ksStatistic     \* timeRescalingDiagnostic: maxD

pipeVars == << tracks, pc, coverage, windows, stream, fitStarted,
               eligibleTypes, fitI, targetResults, posted >>

hostState == << result, analyzing, progress, error >>

hostVars == << result, analyzing, progress, error, workerRef, mounted,
               workers, cancelled, hostLog >>

sumVars == << fit, edgesRaw, baselines, insights >>

fitVars == << countsByType, params, optimizer, opts >>

diagVars == << state, calls, transformedTimes, ksStatistic >>

vars == << tracks, pc, coverage, windows, stream, fitStarted, eligibleTypes,
           fitI, targetResults, posted, result, analyzing, progress, error,
           workerRef, mounted, workers, cancelled, hostLog, fit, edgesRaw,
           baselines, insights, countsByType, params, optimizer, opts,
           state, calls, transformedTimes, ksStatistic >>

\* the null of a state value, and of workerRef.current (workers count from 1)
null == [isNull |-> TRUE]
noWorker == 0

\* the hook right after its first render, no Worker created yet
HostIdle ==
  /\ result = null
  /\ analyzing = FALSE
  /\ progress = null
  /\ error = null
  /\ workerRef = noWorker
  /\ mounted = TRUE
  /\ workers = << >>
  /\ cancelled = {}
  /\ hostLog = << >>

\* fitFullModel not looked into
FitIdle ==
  /\ countsByType = << >>
  /\ params = null
  /\ optimizer = null
  /\ opts = null

\* no recursive state made and no diagnostic computed
DiagIdle ==
  /\ state = null
  /\ calls = null
  /\ transformedTimes = << >>
  /\ ksStatistic = null

\* the summarizer not called
SumIdle ==
  /\ fit = null
  /\ edgesRaw = << >>
  /\ baselines = << >>
  /\ insights = << >>

\* the worker before its 'start' message
PipeIdle ==
  /\ pc = "idle"
  /\ coverage = emptyCoverage
  /\ windows = << >>
  /\ stream = emptyStream
  /\ fitStarted = FALSE
  /\ eligibleTypes = << >>
  /\ fitI = 0
  /\ targetResults = << >>
  /\ posted = << >>

totalObservedHours == totalObservedMs(windows)

Init ==
  /\ tracks \in PipeInputs
  /\ PipeIdle
  /\ HostIdle
  /\ SumIdle
  /\ FitIdle
  /\ DiagIdle

(***************************************************************************)
(* runAnalysis, one action per stretch of code between two posts           *)
(***************************************************************************)
\* ctx.onmessage with a 'start' message; runAnalysis up to line 49
Start ==
  /\ pc = "idle"
  /\ posted' = Append(posted, progressMsg(5))
  /\ pc' = "coverage"
  /\ UNCHANGED << tracks, coverage, windows, stream, fitStarted,
                  eligibleTypes, fitI, targetResults,
                  hostVars, sumVars, fitVars,
                  diagVars >>

\* lines 51-69 without the return of line 66
CoverageNoReturn ==
  /\ pc = "coverage"
  /\ LET cov == computeCoverageStats(tracks)
         win == coverageToWindows(cov, minGapHours)
     IN /\ coverage' = cov
        /\ windows' = win
        /\ posted' = IF Len(win) = 0
                     THEN posted \o << resultMsg(abortedResult(cov, 0, 0, 0)),
                                       progressMsg(10) >>
                     ELSE Append(posted, progressMsg(10))
        /\ pc' = "stream"
  /\ UNCHANGED << tracks, stream, fitStarted, eligibleTypes, fitI,
                  targetResults,
                  hostVars, sumVars, fitVars,
                  diagVars >>

\* lines 51-69
Coverage ==
  /\ pc = "coverage"
  /\ LET cov == computeCoverageStats(tracks)
         win == coverageToWindows(cov, minGapHours)
     IN /\ coverage' = cov
        /\ windows' = win
        /\ IF Len(win) = 0
           THEN /\ posted' = Append(posted, resultMsg(abortedResult(cov, 0, 0, 0)))
                /\ pc' = "done"
           ELSE /\ posted' = Append(posted, progressMsg(10))
                /\ pc' = "stream"
  /\ UNCHANGED << tracks, stream, fitStarted, eligibleTypes, fitI,
                  targetResults,
                  hostVars, sumVars, fitVars,
                  diagVars >>

\* lines 71-95 and fitFullModel up to its loop
Stream ==
  /\ pc = "stream"
  /\ LET strm == buildEventStream(tracks, windows)
     IN /\ stream' = strm
        /\ IF insufficientData(strm)
           THEN /\ posted' = Append(posted,
                     resultMsg(abortedResult(coverage, totalObservedHours,
                                             streamLength(strm),
                                             Len(strm.typeNames))))
                /\ pc' = "done"
                /\ UNCHANGED << fitStarted, eligibleTypes >>
           ELSE /\ fitStarted' = TRUE
                /\ eligibleTypes' = eligibleTypesOf(strm)
                /\ pc' = "fit"
                /\ UNCHANGED posted
  /\ UNCHANGED << tracks, coverage, windows, fitI, targetResults,
                  hostVars, sumVars, fitVars,
                  diagVars >>

\* fitFullModel lines 185-192: report the target and yield to the event loop
FitProgress ==
  /\ pc = "fit"
  /\ fitI < Len(eligibleTypes)
  /\ posted' = Append(posted,
        progressMsg(scaledPercent(fitPercent(fitI, Len(eligibleTypes)))))
  /\ pc' = "yield"
  /\ UNCHANGED << tracks, coverage, windows, stream, fitStarted,
                  eligibleTypes, fitI, targetResults,
                  hostVars, sumVars, fitVars,
                  diagVars >>

\* fitFullModel lines 194-205: fit target k after the yield
FitTarget ==
  /\ pc = "yield"
  /\ \E outcome \in FitOutcomes(eligibleTypes[fitI + 1], Len(stream.typeNames)) :
       targetResults' =
         [k \in DOMAIN targetResults \cup {eligibleTypes[fitI + 1]} |->
            IF k = eligibleTypes[fitI + 1] THEN outcome ELSE targetResults[k]]
  /\ fitI' = fitI + 1
  /\ pc' = "fit"
  /\ UNCHANGED << tracks, coverage, windows, stream, fitStarted,
                  eligibleTypes, posted,
                  hostVars, sumVars, fitVars,
                  diagVars >>

\* fitFullModel line 207 and runAnalysis line 102
FitDone ==
  /\ pc = "fit"
  /\ fitI >= Len(eligibleTypes)
  /\ posted' = posted \o << progressMsg(scaledPercent(100)), progressMsg(90) >>
  /\ pc' = "extract"
  /\ UNCHANGED << tracks, coverage, windows, stream, fitStarted,
                  eligibleTypes, fitI, targetResults,
                  hostVars, sumVars, fitVars,
                  diagVars >>

\* lines 104-120: edges, baselines and insights are derived from the fit
Extract ==
  /\ pc = "extract"
  /\ posted' = Append(posted, progressMsg(95))
  /\ pc' = "diagnose"
  /\ UNCHANGED << tracks, coverage, windows, stream, fitStarted,
                  eligibleTypes, fitI, targetResults,
                  hostVars, sumVars, fitVars,
                  diagVars >>

\* lines 122-144: diagnostics, the last progress and the result
Diagnose ==
  /\ pc = "diagnose"
  /\ posted' = posted \o
        << progressMsg(100),
           resultMsg(fittedResult(coverage, totalObservedHours, stream,
                                  targetResults)) >>
  /\ pc' = "done"
  /\ UNCHANGED << tracks, coverage, windows, stream, fitStarted,
                  eligibleTypes, fitI, targetResults,
                  hostVars, sumVars, fitVars,
                  diagVars >>

\* an exception inside the try block, at any point before the result is posted
Throw ==
  /\ pc \in {"coverage", "stream", "fit", "yield", "extract", "diagnose"}
  /\ pc' = "caught"
  /\ UNCHANGED << tracks, coverage, windows, stream, fitStarted,
                  eligibleTypes, fitI, targetResults, posted,
                  hostVars, sumVars, fitVars,
                  diagVars >>

\* the catch block, line 146
Catch ==
  /\ pc = "caught"
  /\ posted' = Append(posted, errorMsg)
  /\ pc' = "done"
  /\ UNCHANGED << tracks, coverage, windows, stream, fitStarted,
                  eligibleTypes, fitI, targetResults,
                  hostVars, sumVars, fitVars,
                  diagVars >>

Next ==
  \/ Start
  \/ Coverage
  \/ Stream
  \/ FitProgress
  \/ FitTarget
  \/ FitDone
  \/ Extract
  \/ Diagnose
  \/ Throw
  \/ Catch

Spec == Init /\ [][Next]_vars

(***************************************************************************)
(* useInsightsWorker.ts and the Worker objects it creates.                 *)
(*                                                                         *)
(* A Worker has an outbox: the messages it has posted that the host has    *)
(* not yet handled.  Worker.terminate() stops the script and empties the   *)
(* outbox (HTML, "terminate a worker").  An uncaught error or a script     *)
(* that fails to load is reported by an error event queued on the host's   *)
(* event loop, which terminate() does not discard.                         *)
(***************************************************************************)
MaxWorkers == 3
MaxProgress == 1

newWorker == [status |-> "running", outbox |-> << >>, errEvent |-> FALSE,
              nProgress |-> 0]

\* ws after Worker.terminate() of worker w; terminating null is skipped by ?.
terminate(ws, w) ==
  IF w = noWorker THEN ws
  ELSE [ws EXCEPT ![w].status = "terminated", ![w].outbox = << >>]

\* a React state setter: without effect once the component is unmounted
setState(current, value) == IF mounted THEN value ELSE current

\* analyze(tracks, options), lines 77-134
analyze ==
  /\ mounted
  /\ Len(workers) < MaxWorkers
  /\ analyzing' = TRUE
  /\ progress' = [worker |-> noWorker, percent |-> 0]
  /\ error' = null
  /\ result' = null
  /\ workers' = Append(terminate(workers, workerRef), newWorker)
  /\ workerRef' = Len(workers) + 1
  /\ UNCHANGED << mounted, cancelled, hostLog, pipeVars, sumVars, fitVars,
                  diagVars >>

\* cancel(), lines 136-141
cancel ==
  /\ mounted
  /\ workers' = terminate(workers, workerRef)
  /\ workerRef' = noWorker
  /\ analyzing' = FALSE
  /\ progress' = null
  /\ cancelled' = cancelled \cup (1..Len(workers))
  /\ UNCHANGED << result, error, mounted, hostLog, pipeVars, sumVars, fitVars,
                  diagVars >>

\* the effect cleanup of lines 70-75
unmount ==
  /\ mounted
  /\ workers' = terminate(workers, workerRef)
  /\ workerRef' = noWorker
  /\ mounted' = FALSE
  /\ UNCHANGED << result, analyzing, progress, error, cancelled, hostLog,
                  pipeVars, sumVars, fitVars,
                  diagVars >>

\* worker.onmessage of the Worker w created by analyze, lines 90-118
onmessage(w) ==
  /\ workers[w].outbox # << >>
  /\ LET msg == Head(workers[w].outbox)
         rest == [workers EXCEPT ![w].outbox = Tail(workers[w].outbox)]
     IN /\ hostLog' = Append(hostLog, [worker |-> w, kind |-> msg.type])
        /\ CASE msg.type = "progress" ->
                  /\ progress' = setState(progress,
                                   [worker |-> w, percent |-> msg.percent])
                  /\ workers' = rest
                  /\ UNCHANGED << result, analyzing, error, workerRef >>
             [] msg.type = "result" ->
                  /\ result' = setState(result, [worker |-> w])
                  /\ analyzing' = setState(analyzing, FALSE)
                  /\ progress' = setState(progress, null)
                  /\ workers' = terminate(rest, w)
                  /\ workerRef' = noWorker
                  /\ UNCHANGED error
             [] msg.type = "error" ->
                  /\ error' = setState(error, [worker |-> w, from |-> "message"])
                  /\ analyzing' = setState(analyzing, FALSE)
                  /\ progress' = setState(progress, null)
                  /\ workers' = terminate(rest, w)
                  /\ workerRef' = noWorker
                  /\ UNCHANGED result
  /\ UNCHANGED << mounted, cancelled, pipeVars, sumVars, fitVars,
                  diagVars >>

\* worker.onerror of the Worker w created by analyze, lines 120-126
onerror(w) ==
  /\ workers[w].errEvent
  /\ hostLog' = Append(hostLog, [worker |-> w, kind |-> "workererror"])
  /\ error' = setState(error, [worker |-> w, from |-> "event"])
  /\ analyzing' = setState(analyzing, FALSE)
  /\ progress' = setState(progress, null)
  /\ workers' = terminate([workers EXCEPT ![w].errEvent = FALSE], w)
  /\ workerRef' = noWorker
  /\ UNCHANGED << result, mounted, cancelled, pipeVars, sumVars, fitVars,
                  diagVars >>

\* insights.worker.ts postProgress, lines 22-25, seen from the host
workerPostProgress(w) ==
  /\ workers[w].status = "running"
  /\ workers[w].nProgress < MaxProgress
  /\ workers' = [workers EXCEPT
                   ![w].outbox = Append(@, [type |-> "progress",
                                            percent |-> workers[w].nProgress + 1]),
                   ![w].nProgress = @ + 1]
  /\ UNCHANGED << result, analyzing, progress, error, workerRef, mounted,
                  cancelled, hostLog, pipeVars, sumVars, fitVars,
                  diagVars >>

\* insights.worker.ts postResult and postError, lines 27-35: the one
\* terminal message of a run
workerPostTerminal(w, kind) ==
  /\ workers[w].status = "running"
  /\ workers' = [workers EXCEPT ![w].outbox = Append(@, [type |-> kind]),
                                ![w].status = "finished"]
  /\ UNCHANGED << result, analyzing, progress, error, workerRef, mounted,
                  cancelled, hostLog, pipeVars, sumVars, fitVars,
                  diagVars >>

\* the worker's script fails to load or raises an uncaught error: the
\* runtime queues an error event for worker.onerror
workerFail(w) ==
  /\ workers[w].status = "running"
  /\ workers' = [workers EXCEPT ![w].errEvent = TRUE, ![w].status = "failed"]
  /\ UNCHANGED << result, analyzing, progress, error, workerRef, mounted,
                  cancelled, hostLog, pipeVars, sumVars, fitVars,
                  diagVars >>

InitHost ==
  /\ tracks = << >>
  /\ PipeIdle
  /\ HostIdle
  /\ SumIdle
  /\ FitIdle
  /\ DiagIdle

NextHost ==
  \/ analyze
  \/ cancel
  \/ unmount
  \/ \E w \in 1..Len(workers) : onmessage(w)
  \/ \E w \in 1..Len(workers) : onerror(w)
  \/ \E w \in 1..Len(workers) : workerPostProgress(w)
  \/ \E w \in 1..Len(workers) : \E kind \in {"result", "error"} :
       workerPostTerminal(w, kind)
  \/ \E w \in 1..Len(workers) : workerFail(w)

SpecHost == InitHost /\ [][NextHost]_vars

(***************************************************************************)
(* The coverage functions applied one after the other to a track list      *)
(***************************************************************************)
MaxCovRuns == 4

CovRuns ==
  {[kind |-> k, len |-> 1] : k \in {"one", "two", "big", "bad"}}
  \cup {[kind |-> "none", len |-> l] : l \in RunLens}
  \cup {[kind |-> "one", len |-> 14]}

CovInputs == {patternTracks(p, 0) : p \in Patterns(CovRuns, MaxCovRuns)}

InitCov ==
  /\ tracks \in CovInputs
  /\ PipeIdle
  /\ HostIdle
  /\ SumIdle
  /\ FitIdle
  /\ DiagIdle

applyCoverage ==
  /\ pc = "idle"
  /\ coverage' = computeCoverageStats(tracks)
  /\ pc' = "covered"
  /\ UNCHANGED << tracks, windows, stream, fitStarted, eligibleTypes, fitI,
                  targetResults, posted, hostVars, sumVars, fitVars,
                  diagVars >>

applyWindows ==
  /\ pc = "covered"
  /\ windows' = coverageToWindows(coverage, minGapHours)
  /\ pc' = "windowed"
  /\ UNCHANGED << tracks, coverage, stream, fitStarted, eligibleTypes, fitI,
                  targetResults, posted, hostVars, sumVars, fitVars,
                  diagVars >>

applyStream ==
  /\ pc = "windowed"
  /\ stream' = buildEventStream(tracks, windows)
  /\ pc' = "streamed"
  /\ UNCHANGED << tracks, coverage, windows, fitStarted, eligibleTypes, fitI,
                  targetResults, posted, hostVars, sumVars, fitVars,
                  diagVars >>

NextCov ==
  \/ applyCoverage
  \/ applyWindows
  \/ applyStream

SpecCov == InitCov /\ [][NextCov]_vars

(***************************************************************************)
(* coverageToWindows applied to any list of tracking periods               *)
(***************************************************************************)
MaxPeriods == 3
MaxDay == 3

\* a TrackingPeriod from day d0 to day d1, d0 <= d1
periodOf(d0, d1, gap) ==
  [startDate |-> dayStart(d0), endDate |-> dayStart(d1),
   dayCount |-> d1 - d0 + 1, eventCount |-> 0, isGap |-> gap]

AnyPeriods ==
  {periodOf(d0, d1, gap) : d0 \in 0..MaxDay, d1 \in 0..MaxDay, gap \in BOOLEAN}

PeriodLists == UNION {[1..m -> {p \in AnyPeriods : p.dayCount >= 1}] : m \in 0..MaxPeriods}

InitWin ==
  /\ tracks = << >>
  /\ pc = "covered"
  /\ \E ps \in PeriodLists :
       coverage = [totalDays |-> sumDayCount(ps, FALSE) + sumDayCount(ps, TRUE),
                   activeDays |-> sumDayCount(ps, FALSE),
                   gapDays |-> sumDayCount(ps, TRUE),
                   periods |-> ps]
  /\ windows = << >>
  /\ stream = emptyStream
  /\ fitStarted = FALSE
  /\ eligibleTypes = << >>
  /\ fitI = 0
  /\ targetResults = << >>
  /\ posted = << >>
  /\ HostIdle
  /\ SumIdle
  /\ FitIdle
  /\ DiagIdle

NextWin == applyWindows

SpecWin == InitWin /\ [][NextWin]_vars

(***************************************************************************)
(* The summarizer applied to the fits of two types.  The rows of a type    *)
(* without an entry in targetResults carry no weights, as fitFullModel     *)
(* leaves them.                                                            *)
(***************************************************************************)
\* the weights theta[tgt][src, .] a fit is drawn with: none, too weak for an
\* edge, all on one basis (1 h, 5 min, 24 h), and of mixed sign
WeightProfiles ==
  { zeroWeights,
    << 0, 0, 50, 0, 0, 0 >>,
    << 0, 0, 1000, 0, 0, 0 >>,
    << 0, 0, -1000, 0, 0, 0 >>,
    << 1000, 0, 0, 0, 0, 0 >>,
    << 0, 0, 0, 0, 0, 200 >>,
    << 1000, 0, 0, 0, 0, -50 >>,
    << 0, 0, -1000, 0, 1000, 0 >> }

\* the values of the minStrength option: its default, 0 and a negative one
MinStrengths == {minStrength, 0, -minStrength}

\* the values of a sine or cosine coefficient of the baseline
Coefficients == {-900, -300, 0, 300, 900}

\* the baseline row of a type whose hour pair and day-of-week pair are both
\* (sin, cos)
betaRow(sin, cos) == << -1000, sin, cos, 0, 0, sin, cos >>

SumFits ==
  {[typeNames |-> << 1, 2 >>,
    targetResults |-> fitted,
    beta |-> [k \in 0..1 |-> IF k = 0 THEN betaRow(sin, cos) ELSE betaRow(0, 0)],
    theta |-> [tgt \in 0..1 |->
                 [src \in 0..1 |->
                    IF src = tgt \/ tgt \notin fitted THEN zeroWeights
                    ELSE IF tgt = 0 THEN w01 ELSE w10]]] :
     fitted \in SUBSET {0, 1}, sin \in Coefficients, cos \in Coefficients,
     w01 \in WeightProfiles, w10 \in WeightProfiles}

InitSum ==
  /\ tracks = << >>
  /\ PipeIdle
  /\ HostIdle
  /\ fit \in SumFits
  /\ edgesRaw = << >>
  /\ baselines = << >>
  /\ insights = << >>
  /\ countsByType = << >>
  /\ params = null
  /\ optimizer = null
  /\ opts \in {[minStrength |-> m] : m \in MinStrengths}
  /\ DiagIdle

applyEdges ==
  /\ pc = "idle"
  /\ edgesRaw' = extractAllInfluenceEdges(fit, opts.minStrength)
  /\ pc' = "edges"
  /\ UNCHANGED << tracks, coverage, windows, stream, fitStarted,
                  eligibleTypes, fitI, targetResults, posted, hostVars, fit,
                  baselines, insights, fitVars,
                  diagVars >>

applyBaselines ==
  /\ pc = "edges"
  /\ baselines' = extractBaselineSummaries(fit)
  /\ pc' = "baselines"
  /\ UNCHANGED << tracks, coverage, windows, stream, fitStarted,
                  eligibleTypes, fitI, targetResults, posted, hostVars, fit,
                  edgesRaw, insights, fitVars,
                  diagVars >>

applyInsights ==
  /\ pc = "baselines"
  /\ insights' = generateContinuousInsights(edgesRaw, baselines)
  /\ pc' = "insights"
  /\ UNCHANGED << tracks, coverage, windows, stream, fitStarted,
                  eligibleTypes, fitI, targetResults, posted, hostVars, fit,
                  edgesRaw, baselines, fitVars,
                  diagVars >>

NextSum ==
  \/ applyEdges
  \/ applyBaselines
  \/ applyInsights

SpecSum == InitSum /\ [][NextSum]_vars

(***************************************************************************)
(* fitFullModel on two types, with the iterations of fitTargetType         *)
(***************************************************************************)
MaxIter == 2

fitTypes == 2

\* the event counts of a type, the sums the baseline and the influence
\* entries of a gradient can hold, finite or not, and the values of a
\* log-likelihood
FitCounts == {5, 20}
Gradients == {-1, 0, 1}
GradientSums ==
  (Gradients \X Gradients)
  \cup { << notANumber, 1 >>, << 1, Infinity >>, << negInfinity, notANumber >>,
         << Infinity, negInfinity >> }
LogLiks == {-1000, -995, -985, negInfinity, notANumber}

\* fitFullModel lines 172-183
InitFit ==
  /\ tracks = << >>
  /\ pc = "fit"
  /\ coverage = emptyCoverage
  /\ windows = << >>
  /\ stream = emptyStream
  /\ fitStarted = TRUE
  /\ countsByType \in [0..(fitTypes - 1) -> FitCounts]
  /\ eligibleTypes = eligibleFrom(countsByType, 0, fitTypes)
  /\ fitI = 0
  /\ targetResults = << >>
  /\ params = initParamsFromData(fitTypes, countsByType)
  /\ optimizer = null
  /\ opts \in {[maxIter |-> n] : n \in 0..MaxIter}
  /\ DiagIdle
  /\ posted = << >>
  /\ HostIdle
  /\ SumIdle

\* fitFullModel line 194 and fitTargetType up to its loop
fitTargetTypeStart ==
  /\ pc = "fit"
  /\ fitI < Len(eligibleTypes)
  /\ optimizer' = startFit(fitTypes, eligibleTypes[fitI + 1], countsByType)
  /\ pc' = "iterate"
  /\ UNCHANGED << tracks, coverage, windows, stream, fitStarted,
                  eligibleTypes, fitI, targetResults, posted, hostVars,
                  sumVars, countsByType, params, opts, diagVars >>

\* one pass of the loop of fitTargetType, lines 75-118
fitTargetTypeIterate ==
  /\ pc = "iterate"
  /\ ~optimizer.converged
  /\ optimizer.iter < opts.maxIter
  /\ \E logLik \in LogLiks, g \in GradientSums :
       optimizer' = loopBody(optimizer, logLik, g[1], g[2])
  /\ UNCHANGED << tracks, pc, coverage, windows, stream, fitStarted,
                  eligibleTypes, fitI, targetResults, posted, hostVars,
                  sumVars, countsByType, params, opts, diagVars >>

\* fitTargetType leaves its loop, by the break of line 91 or at maxIter,
\* and returns; fitFullModel stores the result, lines 195-204
fitTargetTypeReturn ==
  /\ pc = "iterate"
  /\ optimizer.converged \/ optimizer.iter >= opts.maxIter
  /\ targetResults' =
       [k \in DOMAIN targetResults \cup {optimizer.targetType} |->
          IF k = optimizer.targetType THEN fitResultOf(optimizer)
          ELSE targetResults[k]]
  /\ params' = copyRows(params, optimizer.targetType, fitTypes, optimizer.params)
  /\ fitI' = fitI + 1
  /\ pc' = "fit"
  /\ UNCHANGED << tracks, coverage, windows, stream, fitStarted,
                  eligibleTypes, posted, hostVars, sumVars, countsByType,
                  optimizer, opts, diagVars >>

NextFit ==
  \/ fitTargetTypeStart
  \/ fitTargetTypeIterate
  \/ fitTargetTypeReturn

SpecFit == InitFit /\ [][NextFit]_vars

(***************************************************************************)
(* A recursive state under any sequence of advanceStateDecayOnly and       *)
(* incrementState calls.  calls.events holds the increments made, each     *)
(* with the time the state had been advanced to (the time of the first     *)
(* advance for an increment made before it), calls.monotone whether no     *)
(* advance went back in time, calls.early whether an increment was made    *)
(* before the first advance, calls.last the latest call.                   *)
(***************************************************************************)
MaxCalls == 5
MaxTime == 3

stateTypes == 2

InitState ==
  /\ tracks = << >>
  /\ PipeIdle
  /\ HostIdle
  /\ SumIdle
  /\ FitIdle
  /\ state = initRecursiveState(stateTypes)
  /\ calls = [events |-> {}, monotone |-> TRUE, early |-> FALSE, n |-> 0,
              last |-> [op |-> "init", time |-> negInfinity]]
  /\ transformedTimes = << >>
  /\ ksStatistic = null

\* the increments made so far, with one more
withEvent(events, eventType, time, count) ==
  IF \E e \in events : e.type = eventType /\ e.time = time
  THEN {IF e.type = eventType /\ e.time = time
        THEN [e EXCEPT !.count = @ + count] ELSE e : e \in events}
  ELSE events \cup {[type |-> eventType, time |-> time, count |-> count]}

\* the increments made so far, those made before the first advance dated
\* at the time of that advance
datedAt(events, time) ==
  {IF isFinite(e.time) THEN e ELSE [e EXCEPT !.time = time] : e \in events}

callAdvance ==
  /\ calls.n < MaxCalls
  /\ \E newTimeHours \in 0..MaxTime :
       /\ state' = advanceStateDecayOnly(state, newTimeHours)
       /\ calls' = [events |-> datedAt(calls.events, newTimeHours),
                    monotone |-> calls.monotone
                                 /\ (isFinite(state.lastTimeHours)
                                       => newTimeHours >= state.lastTimeHours),
                    early |-> calls.early,
                    n |-> calls.n + 1,
                    last |-> [op |-> "advance", time |-> newTimeHours]]
  /\ UNCHANGED << pipeVars, hostVars, sumVars, fitVars, transformedTimes,
                  ksStatistic >>

callIncrement ==
  /\ calls.n < MaxCalls
  /\ \E eventType \in -1..stateTypes, count \in 1..2 :
       /\ state' = incrementStateBy(state, eventType, count)
       /\ calls' = [calls EXCEPT
                      !.events = withEvent(@, eventType, state.lastTimeHours,
                                           count),
                      !.early = @ \/ ~isFinite(state.lastTimeHours),
                      !.n = @ + 1,
                      !.last = [op |-> "increment", time |-> state.lastTimeHours]]
  /\ UNCHANGED << pipeVars, hostVars, sumVars, fitVars, transformedTimes,
                  ksStatistic >>

NextState ==
  \/ callAdvance
  \/ callIncrement

SpecState == InitState /\ [][NextState]_vars

(***************************************************************************)
(* The statistic of the diagnostics on every list of transformed times of  *)
(* a target with 10 or more events                                         *)
(***************************************************************************)
MaxIntervals == 9

\* targetIndices.length >= 10 gives at least 9 intervals
minIntervals == minTargetEvents - 1

TransformedTimes == {1, 7, 30}

InitKs ==
  /\ tracks = << >>
  /\ PipeIdle
  /\ HostIdle
  /\ SumIdle
  /\ FitIdle
  /\ state = null
  /\ calls = null
  /\ transformedTimes \in
       UNION {[1..n -> TransformedTimes] : n \in minIntervals..MaxIntervals}
  /\ ksStatistic = null

applyKs ==
  /\ pc = "idle"
  /\ ksStatistic' = ksStatisticOf(transformedTimes)
  /\ pc' = "ks"
  /\ UNCHANGED << tracks, coverage, windows, stream, fitStarted,
                  eligibleTypes, fitI, targetResults, posted, hostVars,
                  sumVars, fitVars, state, calls, transformedTimes >>

NextKs == applyKs

SpecKs == InitKs /\ [][NextKs]_vars

(***************************************************************************)
(* The functions of the pipeline applied to a track list in every order    *)
(* of its tracks                                                           *)
(***************************************************************************)
MaxPermTracks == 3

\* tracks of two names with the same timestamp, a later one of the same
\* day, tracks of the next day, and a track whose date does not parse
PermBlocks ==
  { [trackName |-> 1, date |-> dayStart(0) + 7, n |-> 30],
    [trackName |-> 2, date |-> dayStart(0) + 7, n |-> 25],
    [trackName |-> 1, date |-> dayStart(0) + 12, n |-> 2],
    [trackName |-> 2, date |-> dayStart(1) + 3, n |-> 3],
    [trackName |-> 3, date |-> NaN, n |-> 1] }

isInjective(f) == \A i \in DOMAIN f : \A j \in DOMAIN f : f[i] = f[j] => i = j

PermInputs ==
  {trks \in UNION {[1..m -> PermBlocks] : m \in 0..MaxPermTracks} :
     isInjective(trks)}

\* what the fit and the diagnostics of the eligible targets evaluate
fitEvaluations(strm, wins) ==
  LET eligible == eligibleTypesOf(strm)
  IN [k \in {eligible[i] : i \in 1..Len(eligible)} |->
        [likelihood |-> likelihoodTerms(strm, wins, k),
         diagnostic |-> timeRescalingDiagnostic(strm, wins, k)]]

InitPerm ==
  /\ tracks \in PermInputs
  /\ PipeIdle
  /\ HostIdle
  /\ SumIdle
  /\ FitIdle
  /\ DiagIdle

applyFit ==
  /\ pc = "streamed"
  /\ eligibleTypes' = eligibleTypesOf(stream)
  /\ targetResults' = fitEvaluations(stream, windows)
  /\ pc' = "fitted"
  /\ UNCHANGED << tracks, coverage, windows, stream, fitStarted, fitI,
                  posted, hostVars, sumVars, fitVars,
                  diagVars >>

NextPerm ==
  \/ applyCoverage
  \/ applyWindows
  \/ applyStream
  \/ applyFit

SpecPerm == InitPerm /\ [][NextPerm]_vars

(***************************************************************************)
(* Properties of the pipeline                                              *)
(***************************************************************************)
isTerminal(msg) == msg.type \in {"result", "error"}

lastPosted == posted[Len(posted)]

resultPosted == pc = "done" /\ lastPosted.type = "result"

\* one of the three abort conditions of the pipeline holds of the windows
\* and of the stream that runAnalysis works on
abortCase ==
  \/ Len(windows) = 0
  \/ streamLength(stream) < 50
  \/ Len(stream.typeNames) < 2

\* C1: when coverageToWindows returned no window, or the stream holds fewer
\* than 50 events or fewer than 2 type names, fitFullModel is not started
\* and every posted result has modelFitted = false with empty edges,
\* baselines, diagnostics and insights
C1_AbortIsUnfitted ==
  abortCase =>
    /\ ~fitStarted
    /\ \A i \in 1..Len(posted) :
         posted[i].type = "result" =>
           /\ posted[i].data.modelFitted = FALSE
           /\ posted[i].data.edges = << >>
           /\ posted[i].data.baselines = << >>
           /\ posted[i].data.diagnostics = << >>
           /\ posted[i].data.insights = << >>

\* a run over 50 or more events of a single type has posted its result
C1_Witness ==
  /\ resultPosted
  /\ Len(windows) > 0
  /\ streamLength(stream) >= 50
  /\ Len(stream.typeNames) = 1
  /\ lastPosted.data.modelFitted = FALSE

\* the stream passed the gate and no type of it has 10 events
zeroEligible ==
  /\ Len(windows) > 0
  /\ streamLength(stream) >= 50
  /\ Len(stream.typeNames) >= 2
  /\ \A k \in 0..(Len(stream.typeNames) - 1) :
       computeCountsByType(stream, Len(stream.typeNames))[k] < 10

\* C2: a result for a stream that passed the gate but has no type with at
\* least 10 events has modelFitted = false
C2_ZeroEligibleIsUnfitted ==
  (resultPosted /\ zeroEligible) => lastPosted.data.modelFitted = FALSE

\* C3: every message before the last one is a progress message, a terminal
\* message is posted only as the last act of the run, and a finished run has
\* posted exactly one terminal message
C3_OneTerminalLast ==
  /\ \A i \in 1..Len(posted) :
       isTerminal(posted[i]) => (i = Len(posted) /\ pc = "done")
  /\ pc = "done" => (Len(posted) >= 1 /\ isTerminal(lastPosted))

\* a stage threw after the fit had begun and the run ended with one error
C3_Witness ==
  /\ pc = "done"
  /\ lastPosted.type = "error"
  /\ fitStarted
  /\ Len(posted) >= 4

(***************************************************************************)
(* Properties of coverage, windows and stream                              *)
(***************************************************************************)
validDays == {tracks[i].date \div 24 : i \in {j \in 1..Len(tracks) : tracks[j].date # NaN}}

firstDay == CHOOSE d \in validDays : \A e \in validDays : d <= e
lastDay == CHOOSE d \in validDays : \A e \in validDays : d >= e

\* the events of each day from the first to the last event day
dayCounts == dailyCountsArray(validTracks(tracks), firstDay, lastDay)

\* day j (counted from 1 at the first event day) is inactive: its count is
\* below max(2, 0.1 x rolling median)
inactiveDays ==
  LET base == rollingBaselines(dayCounts)
  IN {j \in 1..Len(dayCounts) :
        dayCounts[j].count < 2 \/ 10 * dayCounts[j].count < base[j]}

\* first and last day of a period, counted from 1 at the first event day
fromDay(p) == p.startDate \div 24 - firstDay + 1
toDay(p) == p.endDate \div 24 - firstDay + 1

covered == pc \in {"covered", "windowed", "streamed"}

\* C6: for an input with a valid timestamp, totalDays is the number of
\* days from the first to the last event day, activeDays + gapDays is
\* totalDays and the dayCounts of the periods add up to totalDays
C6_CoverageClosure ==
  (covered /\ validDays # {}) =>
    /\ coverage.totalDays = lastDay - firstDay + 1
    /\ coverage.activeDays + coverage.gapDays = coverage.totalDays
    /\ SumSeq([i \in 1..Len(coverage.periods) |-> coverage.periods[i].dayCount])
         = coverage.totalDays

\* coverage of an input whose periods were merged: a non-gap period holds
\* inactive days, next to a gap
C6_Witness ==
  /\ covered
  /\ validDays # {}
  /\ Len(coverage.periods) >= 2
  /\ LET inact == inactiveDays
     IN \E i \in 1..Len(coverage.periods) :
          /\ ~coverage.periods[i].isGap
          /\ \E j \in inact :
               fromDay(coverage.periods[i]) <= j /\ j <= toDay(coverage.periods[i])

\* C7: no two adjacent periods of the returned list share the isGap flag
C7_PeriodsAlternate ==
  covered =>
    \A i \in 1..(Len(coverage.periods) - 1) :
      coverage.periods[i].isGap # coverage.periods[i + 1].isGap

\* coverage with a gap next to a non-gap period that holds a short inactive
\* run between active days
C7_Witness ==
  /\ covered
  /\ Len(coverage.periods) >= 2
  /\ LET inact == inactiveDays
     IN \E i \in 1..Len(coverage.periods) :
          LET p == coverage.periods[i]
          IN /\ ~p.isGap
             /\ \E j \in inact : fromDay(p) < j /\ j < toDay(p)
             /\ fromDay(p) \notin inact
             /\ toDay(p) \notin inact

\* the days from a to b are a maximal run of the inactive days inact
maximalInactiveRun(inact, a, b) ==
  /\ \A j \in a..b : j \in inact
  /\ (a - 1) \notin inact
  /\ (b + 1) \notin inact

\* C8: a period is a gap exactly when it is a maximal run of inactive days
\* of length 14 or more; so every inactive run shorter than 14 days lies
\* inside a non-gap period
C8_GapIsLongInactiveRun ==
  (covered /\ validDays # {}) =>
    LET inact == inactiveDays
    IN /\ \A i \in 1..Len(coverage.periods) :
            LET p == coverage.periods[i]
            IN p.isGap <=> /\ p.dayCount >= 14
                           /\ p.dayCount = toDay(p) - fromDay(p) + 1
                           /\ maximalInactiveRun(inact, fromDay(p), toDay(p))
       /\ \A a \in inact :
            (a - 1) \notin inact =>
              \A len \in 1..13 :
                maximalInactiveRun(inact, a, a + len - 1) =>
                  \E i \in 1..Len(coverage.periods) :
                    /\ ~coverage.periods[i].isGap
                    /\ fromDay(coverage.periods[i]) <= a
                    /\ a + len - 1 <= toDay(coverage.periods[i])

\* coverage with a gap of exactly 14 days and an inactive run of 13 days
C8_Witness ==
  /\ covered
  /\ \E i \in 1..Len(coverage.periods) :
       coverage.periods[i].isGap /\ coverage.periods[i].dayCount = 14
  /\ LET inact == inactiveDays
     IN \E a \in inact : maximalInactiveRun(inact, a, a + 12)

\* C9: every window has startMs < endMs, the windows are in ascending
\* order of startMs and each ends no later than the next one starts
C9_WindowsSound ==
  pc = "windowed" =>
    /\ \A i \in 1..Len(windows) : windows[i].startMs < windows[i].endMs
    /\ \A i \in 1..(Len(windows) - 1) :
         /\ windows[i].startMs <= windows[i + 1].startMs
         /\ windows[i].endMs <= windows[i + 1].startMs

nonGapPeriods == SelectSeq(coverage.periods, LAMBDA p : ~p.isGap)

\* windows of a period list that is not in order of start and has periods
\* that were merged into one window
C9_Witness ==
  /\ pc = "windowed"
  /\ Len(windows) >= 2
  /\ Len(nonGapPeriods) > Len(windows)
  /\ \E i \in 1..(Len(nonGapPeriods) - 1) :
       nonGapPeriods[i].startDate > nonGapPeriods[i + 1].startDate

\* an input track belongs in the stream: its timestamp parses and lies in
\* [startMs, endMs) of some window
belongs(tr) ==
  /\ tr.date # NaN
  /\ \E i \in 1..Len(windows) :
       windows[i].startMs <= tr.date /\ tr.date < windows[i].endMs

\* number of stream events of the given name and time
inStream(name, date) ==
  SumSeq([i \in 1..Len(stream.times) |->
            IF stream.types[i] = name /\ stream.times[i] = date
            THEN stream.reps[i] ELSE 0])

\* number of input tracks of the given name and time that belong in the stream
inInput(name, date) ==
  SumSeq([i \in 1..Len(tracks) |->
            IF tracks[i].trackName = name /\ tracks[i].date = date
               /\ belongs(tracks[i])
            THEN tracks[i].n ELSE 0])

\* C10: the stream holds exactly the input tracks with a valid timestamp
\* inside some window, in non-decreasing order of time; times and types
\* have one length, and the names of the stream are mapped one-to-one to
\* indices below the number of type names
C10_StreamExact ==
  pc = "streamed" =>
    /\ \A i \in 1..Len(tracks) :
         inStream(tracks[i].trackName, tracks[i].date)
           = inInput(tracks[i].trackName, tracks[i].date)
    /\ \A i \in 1..Len(stream.times) :
         inInput(stream.types[i], stream.times[i]) > 0
    /\ Len(stream.times) = Len(stream.types)
    /\ \A i \in 1..(Len(stream.times) - 1) : stream.times[i] <= stream.times[i + 1]
    /\ DOMAIN stream.typeIndex = {stream.types[i] : i \in 1..Len(stream.types)}
    /\ \A a \in DOMAIN stream.typeIndex :
         /\ stream.typeIndex[a] \in 0..(Len(stream.typeNames) - 1)
         /\ \A b \in DOMAIN stream.typeIndex :
              stream.typeIndex[a] = stream.typeIndex[b] => a = b

\* a stream built from an input that is not in time order and has an
\* unparsable timestamp and a track outside every window
C10_Witness ==
  /\ pc = "streamed"
  /\ Len(stream.times) >= 2
  /\ Len(stream.typeNames) >= 2
  /\ \E i \in 1..Len(tracks) : tracks[i].date = NaN
  /\ \E i \in 1..Len(tracks) : tracks[i].date # NaN /\ ~belongs(tracks[i])
  /\ \E i \in 1..(Len(tracks) - 1) :
       belongs(tracks[i]) /\ belongs(tracks[i + 1])
       /\ tracks[i].date > tracks[i + 1].date

\* the instants of the days of period p: from the start of its first day to
\* the end of its last day
periodFrom(p) == p.startDate
periodTo(p) == p.endDate + HoursPerDay

\* C11: no window overlaps a day of a gap period, and no event of the stream
\* is dated inside a gap period
C11_WindowsExcludeGaps ==
  pc \in {"windowed", "streamed"} =>
    \A i \in 1..Len(coverage.periods) :
      LET p == coverage.periods[i]
      IN p.isGap =>
           /\ \A w \in 1..Len(windows) :
                \/ windows[w].endMs <= periodFrom(p)
                \/ windows[w].startMs >= periodTo(p)
           /\ \A j \in 1..Len(stream.times) :
                ~(periodFrom(p) <= stream.times[j] /\ stream.times[j] < periodTo(p))

\* a gap period that holds input tracks lies between two windows, and the
\* stream has been built
C11_Witness ==
  /\ pc = "streamed"
  /\ Len(windows) >= 2
  /\ Len(stream.times) >= 2
  /\ \E i \in 1..Len(coverage.periods) :
       LET p == coverage.periods[i]
       IN /\ p.isGap
          /\ \E t \in 1..Len(tracks) :
               /\ tracks[t].date # NaN
               /\ periodFrom(p) <= tracks[t].date
               /\ tracks[t].date < periodTo(p)
          /\ \E w \in 1..Len(windows) : windows[w].endMs = periodFrom(p)
          /\ \E w \in 1..Len(windows) : windows[w].startMs = periodTo(p)

(***************************************************************************)
(* Properties of the result                                                *)
(***************************************************************************)
\* the input is not empty and all its tracks carry one name
singleType ==
  /\ tracks # << >>
  /\ \A i, j \in 1..Len(tracks) : tracks[i].trackName = tracks[j].trackName

\* the input has a day outside every gap: a timestamp parses, and the days
\* from the first to the last event day are fewer than 14 or not all inactive
someDayObserved ==
  /\ validDays # {}
  /\ \/ lastDay - firstDay + 1 < 14
     \/ inactiveDays # 1..(lastDay - firstDay + 1)

\* C12 as claimed: the result for a non-empty input of a single type name
\* has modelFitted = false and numTypes = 1
C12_SingleTypeOneType ==
  (resultPosted /\ singleType) =>
    /\ lastPosted.data.modelFitted = FALSE
    /\ lastPosted.data.numTypes = 1

\* C12 amended: the result for a non-empty input of a single type name has
\* modelFitted = false; its numTypes is 1, unless no timestamp parses or
\* the days from the first to the last event day are 14 or more and all
\* inactive, and then it is 0
C12_SingleTypeUnfitted ==
  (resultPosted /\ singleType) =>
    /\ lastPosted.data.modelFitted = FALSE
    /\ lastPosted.data.numTypes = (IF someDayObserved THEN 1 ELSE 0)

\* the result for a single-type input with tracks inside and outside the
\* windows reports one type
C12_Witness ==
  /\ resultPosted
  /\ singleType
  /\ lastPosted.data.numTypes = 1
  /\ \E i \in 1..Len(tracks) : ~belongs(tracks[i])
  /\ \E i \in 1..Len(tracks) : belongs(tracks[i])

\* the fields of InfluenceEdgeSerializable (workerTypes.ts)
edgeFields ==
  {"sourceType", "targetType", "peakLagMs", "peakLagLabel", "massTimeMs",
   "massTimeLabel", "peakEffect", "integratedEffect", "hazardRatioAtPeak",
   "hazardRatioAt15m", "hazardRatioAt1h", "hazardRatioAt6h", "direction",
   "strength"}

\* C13: every edge of a posted result carries all the edge fields, the
\* 50%-mass time, its label and the hazard ratios at 15 min, 1 h and 6 h
\* among them
C13_EdgesCarryAllFields ==
  \A i \in 1..Len(posted) :
    posted[i].type = "result" =>
      \A e \in 1..Len(posted[i].data.edges) :
        edgeFields \subseteq DOMAIN posted[i].data.edges[e]

\* the percent values of the progress messages posted so far, in order
isProgress(msg) == msg.type = "progress"

percentsPosted ==
  LET msgs == SelectSeq(posted, isProgress)
  IN [i \in 1..Len(msgs) |-> msgs[i].percent]

\* p is 15 + 70 x (i / n) rounded: less than 1 away from it
nearFitPercent(p, i, n) == absInt(n * (p - 15) - 70 * i) < n

eventsOfType(name) ==
  SumSeq([i \in 1..Len(stream.types) |->
            IF stream.types[i] = name THEN stream.reps[i] ELSE 0])

\* the names of the types with at least 10 events in the stream, in the
\* order of stream.typeNames
frequentNames ==
  SelectSeq(stream.typeNames, LAMBDA name : eventsOfType(name) >= 10)

namesOf(entries) == [i \in 1..Len(entries) |-> entries[i].typeName]

\* C19: the keys of targetResults are type indices with at least 10 events
\* in the stream, and when fitFullModel has returned they are all of them;
\* the baselines and the diagnostics of the result have one entry for each
\* of these types and none for a type with fewer than 10 events
C19_FittedTypesAreFrequent ==
  /\ \A k \in DOMAIN targetResults :
       eventsOfType(stream.typeNames[k + 1]) >= 10
  /\ pc \in {"extract", "diagnose"} \/ (resultPosted /\ fitStarted) =>
       DOMAIN targetResults =
         {k \in 0..(Len(stream.typeNames) - 1) :
            eventsOfType(stream.typeNames[k + 1]) >= 10}
  /\ resultPosted /\ fitStarted =>
       /\ namesOf(lastPosted.data.baselines) = frequentNames
       /\ namesOf(lastPosted.data.diagnostics) = frequentNames

\* a fitted result of a stream with a type of 10 events or more and a type
\* of fewer
C19_Witness ==
  /\ resultPosted
  /\ lastPosted.data.modelFitted
  /\ \E i \in 1..Len(stream.typeNames) : eventsOfType(stream.typeNames[i]) < 10
  /\ Len(lastPosted.data.baselines) >= 1
  /\ Len(lastPosted.data.baselines) < Len(stream.typeNames)

\* the periods of a coverage that are no gaps
activePeriodsOf(cov) == SelectSeq(cov.periods, LAMBDA p : ~p.isGap)

\* C28: in every result, totalObservedHours is 24 x coverage.activeDays
\* (both 0 when there is no window); there is one window for every
\* non-gap period of the coverage, of 24 h for each of its days
C28_ObservedHoursAreActiveDays ==
  resultPosted =>
    LET data == lastPosted.data
        active == activePeriodsOf(data.coverage)
    IN /\ data.totalObservedHours = HoursPerDay * data.coverage.activeDays
       /\ Len(windows) = Len(active)
       /\ \A i \in 1..Len(windows) :
            windows[i].endMs - windows[i].startMs
              = HoursPerDay * active[i].dayCount
       /\ windows = << >> => data.totalObservedHours = 0

\* a fitted result over two windows that a gap keeps apart
C28_Witness ==
  /\ resultPosted
  /\ lastPosted.data.modelFitted
  /\ Len(windows) = 2
  /\ lastPosted.data.coverage.gapDays >= minGapDays
  /\ lastPosted.data.totalObservedHours = 2 * HoursPerDay

\* the sum of eventCount over a list of periods
sumEventCount(periods) ==
  SumSeq([i \in 1..Len(periods) |-> periods[i].eventCount])

\* the number of input events with a valid timestamp
validEvents ==
  SumSeq([i \in 1..Len(tracks) |-> IF isNaN(tracks[i].date) THEN 0 ELSE tracks[i].n])

\* C29: in every result, numEvents is the sum of eventCount over the
\* non-gap periods of the returned coverage, and the sum of eventCount
\* over all its periods is the number of input events with a valid
\* timestamp
C29_EventsOfNonGapPeriods ==
  resultPosted =>
    LET data == lastPosted.data
    IN /\ data.numEvents = sumEventCount(activePeriodsOf(data.coverage))
       /\ sumEventCount(data.coverage.periods) = validEvents

\* a fitted result whose coverage has a gap period with events: they are
\* counted in the coverage and missing from the stream
C29_Witness ==
  /\ resultPosted
  /\ lastPosted.data.modelFitted
  /\ \E i \in 1..Len(lastPosted.data.coverage.periods) :
       /\ lastPosted.data.coverage.periods[i].isGap
       /\ lastPosted.data.coverage.periods[i].eventCount >= minGapDays
  /\ lastPosted.data.numEvents < validEvents

(***************************************************************************)
(* Properties of the summarizer                                            *)
(***************************************************************************)
\* C14: every baseline summary has dowPeakDay in 0 .. 6, whatever the pair
\* of day-of-week coefficients, a pair whose unrounded peak lies in
\* [6.5, 7) included
C14_DowPeakDayInWeek ==
  \A i \in 1..Len(baselines) : baselines[i].dowPeakDay \in 0..6

\* 0.1 of integrated effect, in thousandths x ticks
integratedThreshold == 100 * TicksPerHour

\* C15: the direction of every extracted edge is "excite" exactly when its
\* integratedEffect is above 0.1, "inhibit" exactly when it is below -0.1,
\* and "neutral" otherwise
C15_DirectionFromIntegrated ==
  \A i \in 1..Len(edgesRaw) :
    LET e == edgesRaw[i]
    IN /\ e.direction = "excite" <=> e.integratedEffect > integratedThreshold
       /\ e.direction = "inhibit" <=> e.integratedEffect < -integratedThreshold
       /\ e.direction \in {"excite", "inhibit", "neutral"}

\* the edge an insight was derived from
edgeOfInsight(ins) ==
  CHOOSE e \in {edgesRaw[j] : j \in 1..Len(edgesRaw)} :
    e.sourceType = ins.sourceType /\ e.targetType = ins.targetType

\* 15 minutes, in ticks
massTimeLimit == 15 * 600

\* C16: an insight derived from an edge is a "co-occurrence" exactly when
\* the 50%-mass time of the edge is below 15 minutes, and an "influence"
\* otherwise
C16_CoOccurrenceByMassTime ==
  \A i \in 1..Len(insights) :
    insights[i].type # "rhythm" =>
      LET e == edgeOfInsight(insights[i])
      IN /\ insights[i].type = "co-occurrence"
              <=> findMassTime(e.weights) < massTimeLimit
         /\ insights[i].type \in {"co-occurrence", "influence"}

(***************************************************************************)
(* Properties of the pipeline under permutation                            *)
(***************************************************************************)
Orderings(n) == {f \in [1..n -> 1..n] : isInjective(f)}

permute(trks, f) == [i \in 1..Len(trks) |-> trks[f[i]]]

\* the number of events of a stream with the given type and time
eventsAt(strm, name, time) ==
  SumSeq([i \in 1..Len(strm.times) |->
            IF strm.types[i] = name /\ strm.times[i] = time
            THEN strm.reps[i] ELSE 0])

\* the two streams are the same up to the order of their equal-time events
sameStream(a, b) ==
  /\ a.times = b.times
  /\ a.typeNames = b.typeNames
  /\ a.typeIndex = b.typeIndex
  /\ \A i \in 1..Len(a.times) :
       eventsAt(a, a.types[i], a.times[i]) = eventsAt(b, a.types[i], a.times[i])

\* C18: for every permutation of the track list, the coverage and the
\* windows are the same, the event stream is the same up to the order of
\* its equal-time events, and the fit and the diagnostics of every target
\* evaluate the same terms on the same states
C18_PermutationInvariant ==
  pc = "fitted" =>
    \A f \in Orderings(Len(tracks)) :
      LET trks == permute(tracks, f)
          cov == computeCoverageStats(trks)
          wins == coverageToWindows(cov, minGapHours)
          strm == buildEventStream(trks, wins)
      IN /\ cov = coverage
         /\ wins = windows
         /\ sameStream(strm, stream)
         /\ fitEvaluations(strm, wins) = targetResults

\* two eligible types with events of the same timestamp, given in the
\* order that puts the later name first, and a third track
C18_Witness ==
  /\ pc = "fitted"
  /\ Len(tracks) = 3
  /\ tracks[1].trackName = 2
  /\ tracks[2].trackName = 1
  /\ tracks[1].date = tracks[2].date
  /\ DOMAIN targetResults = {0, 1}
  /\ Len(targetResults[0].diagnostic.transformedTimes) >= 30

\* the naive state at time t / unit: one increment for every type and
\* time of the events of the stream strictly before it
historyBeforeScaled(strm, t, unit) ==
  {[type |-> strm.typeIndex[strm.types[i]], time |-> strm.times[i],
    count |-> eventsAt(strm, strm.types[i], strm.times[i])] :
     i \in {j \in 1..Len(strm.times) : unit * strm.times[j] < t}}

historyBefore(strm, t) == historyBeforeScaled(strm, t, 1)

\* the terms of the given kind
termsOfKind(terms, kind) == SelectSeq(terms, LAMBDA term : term.kind = kind)

\* C23: in the likelihood of every fitted target, each window gives its
\* quadrature points and each event of the target one term, and every
\* term, of a quadrature point or of an event, is scored on the state that
\* holds exactly the impulses of the events with a strictly earlier
\* timestamp, also when events of either type and a quadrature point share
\* its timestamp
C23_GroupScoredOnEarlierEvents ==
  pc = "fitted" =>
    \A k \in DOMAIN targetResults :
      LET terms == targetResults[k].likelihood
      IN /\ \A i \in 1..Len(terms) :
              terms[i].S = historyBefore(stream, terms[i].time)
         /\ Len(termsOfKind(terms, "quad")) = numQuadPoints * Len(windows)
         /\ \A i \in 1..Len(stream.times) :
              stream.typeIndex[stream.types[i]] = k =>
                Len(SelectSeq(terms, LAMBDA term :
                      term.kind = "event" /\ term.time = stream.times[i]))
                  = eventsAt(stream, stream.types[i], stream.times[i])

\* a target with a quadrature point that shares its time with events and
\* comes after earlier events, and with events that share their time with
\* events of another type
C23_Witness ==
  /\ pc = "fitted"
  /\ \E k \in DOMAIN targetResults :
       LET terms == targetResults[k].likelihood
       IN /\ \E i \in 1..Len(terms) :
               /\ terms[i].kind = "quad"
               /\ terms[i].S # {}
               /\ \E j \in 1..Len(stream.times) :
                    stream.times[j] = terms[i].time
          /\ \E i \in 1..Len(terms) :
               /\ terms[i].kind = "event"
               /\ \E j \in 1..Len(stream.times) :
                    /\ stream.times[j] = terms[i].time
                    /\ stream.typeIndex[stream.types[j]] # k

\* the times of the events of target k, one entry for every event
RECURSIVE targetTimes(_, _, _)
targetTimes(strm, k, i) ==
  IF i > Len(strm.times) THEN << >>
  ELSE (IF strm.typeIndex[strm.types[i]] = k
        THEN repeated(strm.times[i], strm.reps[i]) ELSE << >>)
       \o targetTimes(strm, k, i + 1)

\* the evaluation points of all integrals of the diagnostic of target k,
\* each with the state it is evaluated on
diagnosticTerms(k) ==
  LET tt == targetResults[k].diagnostic.transformedTimes
  IN UNION {{tt[j][i] : i \in 1..Len(tt[j])} : j \in 1..Len(tt)}

\* the time scale of the evaluation points of the diagnostics
midScale == 2 * numQuadPoints

\* the state of every evaluation point of the diagnostics holds exactly the
\* events before the point
diagnosticStatesExact ==
  \A k \in DOMAIN targetResults : \A term \in diagnosticTerms(k) :
    term.S = historyBeforeScaled(stream, term.tMid, midScale)

\* the left endpoints of the partition of every window in numQuadPoints
\* cells, on the time scale of the diagnostics
windowLeftPoints ==
  {midScale * windows[w].startMs
     + 2 * q * (windows[w].endMs - windows[w].startMs) :
     w \in 1..Len(windows), q \in 0..(numQuadPoints - 1)}

segmentMidPoints(prev, curr) ==
  {midScale * Max2(prev, windows[w].startMs)
     + (2 * q + 1) * (Min2(curr, windows[w].endMs)
                      - Max2(prev, windows[w].startMs)) :
     w \in {v \in 1..Len(windows) :
              Max2(prev, windows[v].startMs) < Min2(curr, windows[v].endMs)},
     q \in 0..(numQuadPoints - 1)}

typeIndexOf(name) ==
  CHOOSE k \in 0..(Len(fit.typeNames) - 1) : fit.typeNames[k + 1] = name

\* C27: every edge of extractAllInfluenceEdges has a source type other
\* than its target type and a target type that was fitted, one with an
\* entry in targetResults, whatever the minStrength option
C27_EdgesOfFittedTargets ==
  pc # "idle" =>
    \A i \in 1..Len(edgesRaw) :
      /\ edgesRaw[i].sourceType # edgesRaw[i].targetType
      /\ typeIndexOf(edgesRaw[i].targetType) \in fit.targetResults

(***************************************************************************)
(* Properties of the recursive state                                       *)
(***************************************************************************)
\* the naive sum over the increments of type s, at time t: one term
\* count * exp(-(t - time) / tau) for every time of an increment
naiveSum(events, s, t) ==
  {[lag |-> IF e.time = t THEN 0 ELSE t - e.time, count |-> e.count] :
     e \in {x \in events : x.type = s}}

\* the maintained S equals the naive sum
stateIsNaiveSum ==
  calls.monotone =>
    \A s \in DOMAIN state.S : \A b \in DOMAIN state.S[s] :
      state.S[s][b] = naiveSum(calls.events, s, state.lastTimeHours)

\* the first advance and an advance with dt <= 0 leave S as it is
advanceWithoutDecay ==
  /\ calls'.last.op = "advance"
  /\ \/ ~isFinite(state.lastTimeHours)
     \/ calls'.last.time <= state.lastTimeHours
  => state'.S = state.S

\* C24: after any sequence of advanceStateDecayOnly and incrementState
\* calls at non-decreasing times, every S[s][b] equals the naive sum over
\* the increments of type s of decay(t - t_e, tau_b), t being the time the
\* state was advanced to; the first advance, from the initial time
\* -Infinity, and an advance with dt <= 0 leave S unchanged
C24_StateIsNaiveSum ==
  /\ []stateIsNaiveSum
  /\ [][advanceWithoutDecay]_vars

\* increments of both types at different times, one made before the first
\* advance, and a state advanced beyond all of them
C24_Witness ==
  /\ calls # null
  /\ calls.monotone
  /\ calls.early
  /\ calls.last.op = "advance"
  /\ \E e \in state.S[0][0] : e.lag = 2
  /\ \E e \in state.S[1][5] : e.lag = 1

(***************************************************************************)
(* Properties of the Kolmogorov-Smirnov statistic                          *)
(***************************************************************************)
\* the Kolmogorov-Smirnov distance between the empirical distribution of
\* the samples and F, times 1000 n: the empirical distribution steps from
\* (i - 1) / n to i / n at the i-th smallest sample
ksDistance(times) ==
  LET sorted == sortedTransformed(times)
      n == Len(sorted)
  IN MaxSeq([i \in 1..n |->
               Max2(absInt(1000 * i - n * theoreticalCdf(sorted[i])),
                    absInt(1000 * (i - 1) - n * theoreticalCdf(sorted[i])))])

\* C25: the ksStatistic of a target with at least 10 events is the
\* one-sample Kolmogorov-Smirnov distance between the empirical
\* distribution of its n transformed times and F(x) = 1 - exp(-x)
C25_KsIsKolmogorovDistance ==
  pc = "ks" => ksStatistic = ksDistance(transformedTimes)

(***************************************************************************)
(* Properties of the optimizer                                             *)
(***************************************************************************)
\* the parameters before any fit
initialParams == initParamsFromData(fitTypes, countsByType)

\* the row of target k in p and in q is the same
sameRow(p, q, k) ==
  /\ \A j \in DOMAIN p.beta :
       j \div NUM_BASELINE_FEATURES = k => p.beta[j] = q.beta[j]
  /\ p.theta[k] = q.theta[k]

\* C20: while target k is fitted, after any number of iterations, the
\* baseline rows of the other types, the theta rows of the other targets
\* and the self block theta[k][k, .] of the parameters of fitTargetType hold
\* their initial values; and the shared parameters of fitFullModel hold,
\* for every fitted target, the row its fit returned, and for every other
\* type its initial row
C20_FitChangesOnlyRowK ==
  /\ optimizer # null =>
       LET k == optimizer.targetType
           p == optimizer.params
       IN /\ \A j \in DOMAIN p.beta :
               j \div NUM_BASELINE_FEATURES # k =>
                 p.beta[j] = initialParams.beta[j]
          /\ \A tgt \in DOMAIN p.theta : \A idx \in DOMAIN p.theta[tgt] :
               tgt # k \/ idx \div numBases = k =>
                 p.theta[tgt][idx] = initialParams.theta[tgt][idx]
  /\ params # null =>
       \A k \in DOMAIN params.theta :
         IF k \in DOMAIN targetResults
         THEN sameRow(params, targetResults[k].params, k)
         ELSE sameRow(params, initialParams, k)

\* the second target is being fitted, its row and the row the first fit
\* returned both differ from their initial values
C20_Witness ==
  /\ optimizer # null
  /\ optimizer.iter = 2
  /\ fitI = 1
  /\ ~sameRow(optimizer.params, initialParams, optimizer.targetType)
  /\ optimizer.params.theta[optimizer.targetType] # initialParams.theta[optimizer.targetType]
  /\ ~sameRow(params, initialParams, eligibleTypes[1])
  /\ params.theta[eligibleTypes[1]] # initialParams.theta[eligibleTypes[1]]

\* x is finite and lies in [-50, +50]
inRange(x) ==
  /\ isFinite(x)
  /\ -50000 <= x
  /\ x <= 50000

allInRange(p) ==
  /\ \A j \in DOMAIN p.beta : inRange(p.beta[j])
  /\ \A k \in DOMAIN p.theta : \A idx \in DOMAIN p.theta[k] :
       inRange(p.theta[k][idx])

\* C21: every beta and theta entry is finite and lies in [-50, +50], in
\* the parameters of fitTargetType after each of its updates, in the
\* parameters it returns and in the shared parameters of fitFullModel,
\* whatever gradient entries and log-likelihoods, finite or not, the
\* iterations have seen; an entry whose gradient was not finite is stored
\* as 0
C21_ParamsFiniteInRange ==
  /\ optimizer # null =>
       /\ allInRange(optimizer.params)
       /\ \A j \in DOMAIN optimizer.m_beta :
            ~isFinite(optimizer.m_beta[j]) => optimizer.params.beta[j] = 0
       /\ \A idx \in DOMAIN optimizer.m_theta[optimizer.targetType] :
            ~isFinite(optimizer.m_theta[optimizer.targetType][idx]) =>
              optimizer.params.theta[optimizer.targetType][idx] = 0
  /\ \A k \in DOMAIN targetResults : allInRange(targetResults[k].params)
  /\ params # null => allInRange(params)

\* a fit was returned whose iterations saw a NaN log-likelihood and
\* non-finite gradient entries for a baseline and for an influence weight:
\* both moments are not finite and both parameters were stored as 0
C21_Witness ==
  /\ pc = "fit"
  /\ optimizer # null
  /\ optimizer.iter >= 2
  /\ \E i \in 1..Len(optimizer.logLiks) : optimizer.logLiks[i] = notANumber
  /\ LET k == optimizer.targetType
     IN /\ k \in DOMAIN targetResults
        /\ \E j \in DOMAIN optimizer.m_beta :
             /\ ~isFinite(optimizer.m_beta[j])
             /\ targetResults[k].params.beta[j] = 0
             /\ params.beta[j] = 0
        /\ \E idx \in DOMAIN optimizer.m_theta[k] :
             /\ ~isFinite(optimizer.m_theta[k][idx])
             /\ targetResults[k].params.theta[k][idx] = 0
             /\ params.theta[k][idx] = 0

\* the absolute difference of two log-likelihoods is below the tolerance:
\* both are finite (the difference is infinite or NaN otherwise) and less
\* than the tolerance apart
belowTolerance(cur, prev) ==
  /\ isFinite(cur)
  /\ isFinite(prev)
  /\ cur - prev < tolerance
  /\ prev - cur < tolerance

\* the passes of the loop where the log-likelihood changed by less than the
\* tolerance, the value before the first pass being -Infinity
closePasses(lls) ==
  {i \in 1..Len(lls) :
     belowTolerance(lls[i], IF i = 1 THEN negInfinity ELSE lls[i - 1])}

\* C22: fitTargetType makes at most maxIter passes of its loop and iter
\* never exceeds maxIter; converged is true iff some pass (of index below
\* maxIter) found the log-likelihood within the tolerance of the previous
\* one, and then iterations is the number of updates applied, at least 1
\* and below maxIter; otherwise converged is false, and the call returns
\* with iterations = maxIter
C22_ConvergedIffBelowTolerance ==
  optimizer # null =>
    LET lls == optimizer.logLiks
        k == optimizer.targetType
    IN /\ Len(lls) <= opts.maxIter
       /\ optimizer.iter <= opts.maxIter
       /\ optimizer.converged <=> closePasses(lls) # {}
       /\ optimizer.converged =>
            /\ closePasses(lls) = {Len(lls)}
            /\ optimizer.iter = Len(lls) - 1
            /\ 1 <= optimizer.iter
            /\ optimizer.iter < opts.maxIter
       /\ ~optimizer.converged => optimizer.iter = Len(lls)
       /\ pc = "fit" =>
            /\ targetResults[k].converged = optimizer.converged
            /\ targetResults[k].iterations = optimizer.iter
            /\ ~optimizer.converged => optimizer.iter = opts.maxIter

\* a fit returned converged after one update, and a fit returned not
\* converged at maxIter
C22_Witness ==
  /\ pc = "fit"
  /\ DOMAIN targetResults = {0, 1}
  /\ targetResults[0].converged
  /\ targetResults[0].iterations = 1
  /\ ~targetResults[1].converged
  /\ targetResults[1].iterations = opts.maxIter
  /\ opts.maxIter = 2

(***************************************************************************)
(* Properties of the host                                                  *)
(***************************************************************************)
liveWorkers == {w \in 1..Len(workers) : workers[w].status # "terminated"}

lastHandled == hostLog[Len(hostLog)]

\* C4: a step in which the host handles a 'progress', 'result' or 'error'
\* message of a worker whose analysis was started before a cancel() leaves
\* result, error, progress and analyzing as they were
C4_CancelledMessagesIgnored ==
  [][(/\ Len(hostLog') > Len(hostLog)
      /\ hostLog'[Len(hostLog')].kind \in {"progress", "result", "error"}
      /\ hostLog'[Len(hostLog')].worker \in cancelled)
     => UNCHANGED hostState]_vars

\* C30: in every reachable state of the mounted host, result and error are
\* never both non-null, and while analyzing is true both are null and a
\* worker reference is held
C30_ResultErrorExclusive ==
  mounted =>
    /\ ~(result # null /\ error # null)
    /\ analyzing => (result = null /\ error = null /\ workerRef # noWorker)

\* C5: at most one Worker created by the hook is not terminated
C5_AtMostOneLiveWorker == Cardinality(liveWorkers) <= 1

====
